---------------------------- MODULE Spec2Model ----------------------------
(***************************************************************************)
(* Portal Chess: the rule engine (engine.js) and the authoritative room    *)
(* coordinator (server.js) as a state machine.                             *)
(*                                                                         *)
(* Squares are held as the canonical index r*8+f that sqToIndex computes.  *)
(* Text that arrives from a client (square labels, "STAY") is held as a    *)
(* sequence of one-character strings so that toUpperCase and sqToIndex are *)
(* computed, not assumed.                                                  *)
(***************************************************************************)
EXTENDS Integers, Sequences, FiniteSets, TLC

VARIABLES
  rooms,     \* the rooms table: room id -> room
  now,       \* Date.now()
  live,      \* sockets currently connected
  last,      \* the event handled last: operation, room id, acknowledgement and,
             \* when it was carried out, the socket and the payload it came with
  out,       \* what the last handler run emitted, in order
  gameEnds,  \* per room id, the number of gameEnd broadcasts since the room was created
  timers,    \* room ids whose setInterval callback is still scheduled
  pos        \* the position of a game played on the engine alone

vars == <<rooms, now, live, last, out, gameEnds, timers, pos>>

-----------------------------------------------------------------------------
(* Text helpers *)

FILES == <<"A", "B", "C", "D", "E", "F", "G", "H">>
RANKS == <<"1", "2", "3", "4", "5", "6", "7", "8">>

LowerChars == <<"a", "b", "c", "d", "e", "f", "g", "h", "s", "t", "y">>
UpperChars == <<"A", "B", "C", "D", "E", "F", "G", "H", "S", "T", "Y">>

\* String.prototype.toUpperCase on one character
UpChar(c) ==
  IF \E i \in 1..Len(LowerChars) : LowerChars[i] = c
  THEN UpperChars[CHOOSE i \in 1..Len(LowerChars) : LowerChars[i] = c]
  ELSE c

toUpperCase(s) == [i \in 1..Len(s) |-> UpChar(s[i])]

\* Array.prototype.indexOf, 0-based, -1 when absent
indexOf(arr, c) ==
  IF \E i \in 1..Len(arr) : arr[i] = c
  THEN (CHOOSE i \in 1..Len(arr) : arr[i] = c) - 1
  ELSE -1

BadSquare == -1

\* sqToIndex; BadSquare stands for the thrown Error("Bad square")
FileRank(f, r) == IF f < 0 \/ r < 0 THEN BadSquare ELSE r * 8 + f

CharAt(sq, i) == IF Len(sq) >= i THEN sq[i] ELSE ""

sqToIndex(sqRaw) ==
  FileRank(indexOf(FILES, CharAt(toUpperCase(sqRaw), 1)),
           indexOf(RANKS, CharAt(toUpperCase(sqRaw), 2)))

indexToSq(i) == <<FILES[(i % 8) + 1], RANKS[(i \div 8) + 1]>>

Squares == 0..63
FileOf(i) == i % 8
RankOf(i) == i \div 8
OnBoard(f, r) == f >= 0 /\ f < 8 /\ r >= 0 /\ r < 8
SqAt(f, r) == r * 8 + f

STAY == <<"S", "T", "A", "Y">>
NoText == << >>

-----------------------------------------------------------------------------
(* Portals *)

WHITE_PORTALS_SQS == <<<<"D", "5">>, <<"F", "5">>, <<"E", "3">>, <<"B", "3">>>>
BLACK_PORTALS_SQS == <<<<"C", "4">>, <<"E", "4">>, <<"D", "6">>, <<"G", "6">>>>
NEUTRAL_PAIRS_SQS == <<<<<<"B", "5">>, <<"G", "4">>>>>>

\* PORTALS.white / PORTALS.black as sequences in declaration (Set insertion) order
PortalsWhite == [i \in 1..Len(WHITE_PORTALS_SQS) |-> sqToIndex(WHITE_PORTALS_SQS[i])]
PortalsBlack == [i \in 1..Len(BLACK_PORTALS_SQS) |-> sqToIndex(BLACK_PORTALS_SQS[i])]
IndexPair(ab) == <<sqToIndex(ab[1]), sqToIndex(ab[2])>>
NeutralPairs == [i \in 1..Len(NEUTRAL_PAIRS_SQS) |-> IndexPair(NEUTRAL_PAIRS_SQS[i])]

Range(s) == {s[i] : i \in 1..Len(s)}

WhiteSet == Range(PortalsWhite)
BlackSet == Range(PortalsBlack)
NeutralSet == UNION {Range(pair) : pair \in Range(NeutralPairs)}

\* portalSquares of isSquareAttacked: white, black, then neutral pairs, in insertion order
RECURSIVE FlattenPairs(_)
FlattenPairs(ps) ==
  IF ps = << >> THEN << >> ELSE <<Head(ps)[1], Head(ps)[2]>> \o FlattenPairs(Tail(ps))

PortalSquares == PortalsWhite \o PortalsBlack \o FlattenPairs(NeutralPairs)

NoNet == "none"

\* isPortalFor with either exclusive network open to both colours
isPortalForAnyColour(color, sq) ==
  IF sq \in WhiteSet \cup BlackSet THEN "exclusive"
  ELSE IF sq \in NeutralSet THEN "neutral"
  ELSE NoNet

\* isPortalFor(color, sq): "exclusive" | "neutral" | NoNet (null)
isPortalFor(color, sq) ==
  IF sq \in WhiteSet THEN (IF color = "w" THEN "exclusive" ELSE NoNet)
  ELSE IF sq \in BlackSet THEN (IF color = "b" THEN "exclusive" ELSE NoNet)
  ELSE IF sq \in NeutralSet THEN "neutral"
  ELSE NoNet

\* the first pair holding sq gives its other end; BadSquare stands for null
RECURSIVE MateIn(_, _)
MateIn(pairs, sq) ==
  IF pairs = << >> THEN BadSquare
  ELSE IF sq = Head(pairs)[1] THEN Head(pairs)[2]
  ELSE IF sq = Head(pairs)[2] THEN Head(pairs)[1]
  ELSE MateIn(Tail(pairs), sq)

neutralMate(sq) == MateIn(NeutralPairs, sq)

Opp(c) == IF c = "w" THEN "b" ELSE "w"

-----------------------------------------------------------------------------
(* Position *)

Null == [type |-> "-", color |-> "-", hasMoved |-> FALSE]

Piece(t, c) == [type |-> t, color |-> c, hasMoved |-> FALSE]

BackRank == <<"R", "N", "B", "Q", "K", "B", "N", "R">>

initialBoard ==
  [i \in Squares |->
     IF RankOf(i) = 0 THEN Piece(BackRank[FileOf(i) + 1], "w")
     ELSE IF RankOf(i) = 1 THEN Piece("P", "w")
     ELSE IF RankOf(i) = 6 THEN Piece("P", "b")
     ELSE IF RankOf(i) = 7 THEN Piece(BackRank[FileOf(i) + 1], "b")
     ELSE Null]

EmptyMap == << >>

initialState ==
  [board |-> initialBoard,
   turn |-> "w",
   moveNumber |-> 1,
   enPassantTarget |-> BadSquare,
   castleRights |-> [K |-> TRUE, Q |-> TRUE, k |-> TRUE, q |-> TRUE],
   halfmoveClock |-> 0,
   neutralSwapCooldown |-> [w |-> FALSE, b |-> FALSE],
   pendingPersonalNoReturn |-> [w |-> EmptyMap, b |-> EmptyMap],
   personalNoReturn |-> [w |-> EmptyMap, b |-> EmptyMap],
   history |-> << >>]

pieceAt(state, sq) == state.board[sq]

\* object[key] = value
MapPut(m, k, v) == [x \in (DOMAIN m) \cup {k} |-> IF x = k THEN v ELSE m[x]]

-----------------------------------------------------------------------------
(* Moves *)

NoPortal == [present |-> FALSE, entry |-> BadSquare, network |-> NoNet,
             choice |-> NoText, swapped |-> FALSE]

Via(entry, network, choice, swapped) ==
  [present |-> TRUE, entry |-> entry, network |-> network,
   choice |-> choice, swapped |-> swapped]

\* BaseMove {from, to, kind, meta:{promo|castle}}
Base(from, to, kind) ==
  [from |-> from, to |-> to, kind |-> kind, promo |-> "", castle |-> ""]

\* ResolvedMove: {...baseMove, toFinal, viaPortal}
Resolve(bm, toFinal, via) ==
  [from |-> bm.from, to |-> bm.to, kind |-> bm.kind, promo |-> bm.promo,
   castle |-> bm.castle, toFinal |-> toFinal, viaPortal |-> via]

RECURSIVE ConcatAll(_)
ConcatAll(ss) == IF ss = << >> THEN << >> ELSE Head(ss) \o ConcatAll(Tail(ss))

-----------------------------------------------------------------------------
(* Geometry tables *)

KnightD == <<<<1, 2>>, <<2, 1>>, <<2, -1>>, <<1, -2>>, <<-1, -2>>, <<-2, -1>>, <<-2, 1>>, <<-1, 2>>>>
QueenD  == <<<<1, 0>>, <<-1, 0>>, <<0, 1>>, <<0, -1>>, <<1, 1>>, <<1, -1>>, <<-1, 1>>, <<-1, -1>>>>
RookDirs   == <<1, 2, 3, 4>>
BishopDirs == <<5, 6, 7, 8>>
QueenDirs  == <<1, 2, 3, 4, 5, 6, 7, 8>>

NotBad(x) == x # BadSquare

\* the on-board squares sq + d for d in deltas, in the order of deltas
StepTargets(deltas, sq) ==
  SelectSeq([i \in 1..Len(deltas) |->
               LET f == FileOf(sq) + deltas[i][1]
                   r == RankOf(sq) + deltas[i][2]
               IN IF OnBoard(f, r) THEN SqAt(f, r) ELSE BadSquare],
            NotBad)

KnightT == [sq \in Squares |-> StepTargets(KnightD, sq)]
KingT   == [sq \in Squares |-> StepTargets(QueenD, sq)]

RECURSIVE RayFrom(_, _, _, _)
RayFrom(f, r, df, dr) ==
  IF OnBoard(f, r) THEN <<SqAt(f, r)>> \o RayFrom(f + df, r + dr, df, dr) ELSE << >>

\* Ray[sq][d]: the squares met walking from sq in direction QueenD[d]
Ray == [sq \in Squares |-> [d \in 1..8 |->
          RayFrom(FileOf(sq) + QueenD[d][1], RankOf(sq) + QueenD[d][2],
                  QueenD[d][1], QueenD[d][2])]]

\* number of leading empty squares of a ray
RECURSIVE FreeLen(_, _, _)
FreeLen(board, ray, i) ==
  IF i > Len(ray) \/ board[ray[i]] # Null THEN i - 1 ELSE FreeLen(board, ray, i + 1)

Sign(x) == IF x > 0 THEN 1 ELSE IF x < 0 THEN -1 ELSE 0
Abs(x) == IF x < 0 THEN -x ELSE x

\* direction number of the step (sf, sr)
DirOf(sf, sr) == CHOOSE d \in 1..8 : QueenD[d] = <<sf, sr>>

-----------------------------------------------------------------------------
(* expandWithPortalOutcomes *)

NetworkOf(color) == IF color = "w" THEN PortalsWhite ELSE PortalsBlack

NetLabel(n) == IF n = NoNet THEN "neutral" ELSE n

\* a jump through the portal on the landing square to dest, which holds occupant
Jump(bm, mover, network, dest, occupant) ==
  IF occupant = Null
  THEN <<Resolve(bm, dest, Via(bm.to, network, indexToSq(dest), FALSE))>>
  ELSE IF occupant.color # mover.color
  THEN <<Resolve(bm, dest, Via(bm.to, network, indexToSq(dest), TRUE))>>
  ELSE << >>

ExpandActivation(bm, mover, occupant) ==
  IF occupant # Null /\ occupant.color = mover.color THEN << >>
  ELSE <<Resolve(bm, bm.to, Via(bm.from, NetLabel(isPortalFor(mover.color, bm.from)),
                                indexToSq(bm.to), occupant # Null))>>

ExpandExclusive(state, bm, mover, choices) ==
  <<Resolve(bm, bm.to, Via(bm.to, "exclusive", STAY, FALSE))>>
  \o ConcatAll([i \in 1..Len(choices) |->
                  Jump(bm, mover, "exclusive", choices[i], pieceAt(state, choices[i]))])

ExpandNeutral(state, bm, mover, mate) ==
  <<Resolve(bm, bm.to, Via(bm.to, "neutral", STAY, FALSE))>>
  \o Jump(bm, mover, "neutral", mate, pieceAt(state, mate))

\* ExpandLanding letting either colour use the squares of both exclusive networks
ExpandLandingAnyColour(state, bm, mover, portalType) ==
  IF bm.kind \in {"capture", "enpassant"}
  THEN <<Resolve(bm, bm.to, NoPortal)>>
  ELSE IF bm.to \in WhiteSet \cup BlackSet
  THEN ExpandExclusive(state, bm, mover,
                       SelectSeq(IF bm.to \in WhiteSet THEN PortalsWhite ELSE PortalsBlack,
                                 LAMBDA sq : sq # bm.to))
  ELSE IF portalType = NoNet
  THEN <<Resolve(bm, bm.to, NoPortal)>>
  ELSE ExpandNeutral(state, bm, mover, neutralMate(bm.to))

ExpandLanding(state, bm, mover, portalType) ==
  IF bm.kind \in {"capture", "enpassant"} /\ portalType # NoNet
  THEN <<Resolve(bm, bm.to, NoPortal)>>
  ELSE IF portalType = NoNet
  THEN <<Resolve(bm, bm.to, NoPortal)>>
  ELSE IF portalType = "exclusive"
  THEN ExpandExclusive(state, bm, mover,
                       SelectSeq(NetworkOf(mover.color), LAMBDA sq : sq # bm.to))
  ELSE ExpandNeutral(state, bm, mover, neutralMate(bm.to))

ExpandFor(state, bm, mover) ==
  IF bm.kind = "portal-activation"
  THEN ExpandActivation(bm, mover, pieceAt(state, bm.to))
  ELSE ExpandLanding(state, bm, mover, isPortalFor(mover.color, bm.to))

\* expandWithPortalOutcomes without the promotion rule
expandPromotionAsMove(state, baseMove) ==
  ExpandFor(state, baseMove, pieceAt(state, baseMove.from))

expandWithPortalOutcomes(state, baseMove) ==
  IF baseMove.kind = "promotion"
  THEN <<Resolve(baseMove, baseMove.to, NoPortal)>>
  ELSE ExpandFor(state, baseMove, pieceAt(state, baseMove.from))

\* some outcome of the list lands on target
\* Lands testing the square an outcome sets out from
LandsFrom(outcomes, target) == \E j \in 1..Len(outcomes) : outcomes[j].from = target

Lands(outcomes, target) == \E j \in 1..Len(outcomes) : outcomes[j].toFinal = target

LandsOn(state, bm, target) == Lands(expandWithPortalOutcomes(state, bm), target)

-----------------------------------------------------------------------------
(* isSquareAttacked *)

\* the square after the n free squares of the ray holds an attacker of one of the types
AttackerAt(state, ray, n, opponent, types) ==
  n < Len(ray) /\ pieceAt(state, ray[n + 1]).color = opponent
               /\ pieceAt(state, ray[n + 1]).type \in types

\* first blocker of the ray from target in direction d is an attacker of one of the types
RayHit(state, target, d, opponent, types) ==
  AttackerAt(state, Ray[target][d], FreeLen(state.board, Ray[target][d], 1), opponent, types)

\* no piece strictly before dest on the ray
ClearTo(board, ray, dest) ==
  FreeLen(board, ray, 1) >= (CHOOSE i \in 1..Len(ray) : ray[i] = dest) - 1

\* no piece strictly between from and dest along the step (sf, sr)
PathClear(state, from, dest, sf, sr) == ClearTo(state.board, Ray[from][DirOf(sf, sr)], dest)

PawnDir(color) == IF color = "w" THEN 1 ELSE -1

\* the "canReach" switch of the portal scan, df and dr being the file and rank distances
Reach(state, p, fromSq, dest, df, dr) ==
  CASE p.type = "N" -> \E i \in 1..Len(KnightD) : KnightD[i] = <<df, dr>>
    [] p.type = "K" -> Abs(df) <= 1 /\ Abs(dr) <= 1
    [] p.type = "P" ->
         \/ (dr = PawnDir(p.color) /\ Abs(df) = 1)
         \/ (df = 0 /\ dr = PawnDir(p.color) /\ pieceAt(state, dest) = Null)
    [] p.type \in {"B", "R", "Q"} ->
         /\ \/ p.type \in {"B", "Q"} /\ Abs(df) = Abs(dr) /\ df # 0
            \/ p.type \in {"R", "Q"} /\ ((df = 0 /\ dr # 0) \/ (dr = 0 /\ df # 0))
         /\ PathClear(state, fromSq, dest, Sign(df), Sign(dr))
    [] OTHER -> FALSE

CanReach(state, p, fromSq, dest) ==
  Reach(state, p, fromSq, dest, FileOf(dest) - FileOf(fromSq), RankOf(dest) - RankOf(fromSq))

\* portal scan, part 1: the base moves of an attacker standing on a portal it may use
ActivationBases(p, fromSq, portalType) ==
  IF portalType = "exclusive"
  THEN {Base(fromSq, dest, "portal-activation") : dest \in Range(NetworkOf(p.color)) \ {fromSq}}
  ELSE IF portalType = "neutral"
  THEN {Base(fromSq, dest, "portal-activation") : dest \in {neutralMate(fromSq)} \ {BadSquare}}
  ELSE {}

LandingKind(p, occupant) ==
  IF occupant # Null /\ occupant.color # p.color THEN "capture" ELSE "move"

\* portal scan, part 2: the base moves onto the portal squares the attacker can step to
LandingBases(state, p, fromSq) ==
  {Base(fromSq, dest, LandingKind(p, pieceAt(state, dest))) :
     dest \in {d \in Range(PortalSquares) : CanReach(state, p, fromSq, d)}}

\* the portal scan for one attacker: some crafted base move has an outcome on target
PortalScan(state, p, fromSq, target) ==
  \E bm \in ActivationBases(p, fromSq, isPortalFor(p.color, fromSq))
             \cup LandingBases(state, p, fromSq) :
    LandsOn(state, bm, target)

PawnAttacks(state, tf, tr, opponent) ==
  \E df \in {-1, 1} :
    /\ OnBoard(tf + df, tr - PawnDir(opponent))
    /\ pieceAt(state, SqAt(tf + df, tr - PawnDir(opponent))) \in
         {[type |-> "P", color |-> opponent, hasMoved |-> h] : h \in BOOLEAN}

StepAttacks(state, targets, opponent, type) ==
  \E i \in 1..Len(targets) :
    /\ pieceAt(state, targets[i]).color = opponent
    /\ pieceAt(state, targets[i]).type = type

PortalAttacker(state, p, fromSq, target, opponent) ==
  /\ p # Null
  /\ p.color = opponent
  /\ p.type # "K"
  /\ PortalScan(state, p, fromSq, target)

isSquareAttacked(state, target, attackerColor) ==
  \/ PawnAttacks(state, FileOf(target), RankOf(target), attackerColor)
  \/ StepAttacks(state, KnightT[target], attackerColor, "N")
  \/ StepAttacks(state, KingT[target], attackerColor, "K")
  \/ \E d \in Range(RookDirs) : RayHit(state, target, d, attackerColor, {"R", "Q"})
  \/ \E d \in Range(BishopDirs) : RayHit(state, target, d, attackerColor, {"B", "Q"})
  \/ \E i \in Squares : PortalAttacker(state, state.board[i], i, target, attackerColor)

-----------------------------------------------------------------------------
(* generatePseudoLegalMoves *)

\* the inner helper add(to, kind)
Add(state, p, fromSq, to, kind) ==
  LET tgt == pieceAt(state, to)
  IN IF tgt # Null /\ tgt.color = p.color THEN << >>
     ELSE IF tgt # Null /\ tgt.color # p.color /\ kind = "move"
     THEN <<Base(fromSq, to, "capture")>>
     ELSE <<Base(fromSq, to, kind)>>

StepMoves(state, p, fromSq, targets) ==
  ConcatAll([i \in 1..Len(targets) |-> Add(state, p, fromSq, targets[i], "move")])

\* one direction of addRays: the n free squares of the ray, then the blocker if it is an enemy
RayAdds(state, p, fromSq, ray, n) ==
  [i \in 1..n |-> Base(fromSq, ray[i], "move")]
  \o (IF n < Len(ray) /\ pieceAt(state, ray[n + 1]).color # p.color
      THEN Add(state, p, fromSq, ray[n + 1], "capture")
      ELSE << >>)

RayMoves(state, p, fromSq, d) ==
  RayAdds(state, p, fromSq, Ray[fromSq][d], FreeLen(state.board, Ray[fromSq][d], 1))

addRays(state, p, fromSq, dirs) ==
  ConcatAll([i \in 1..Len(dirs) |-> RayMoves(state, p, fromSq, dirs[i])])

PromoTypes == <<"Q", "R", "B", "N">>

Promotions(fromSq, to) ==
  [i \in 1..Len(PromoTypes) |->
     [from |-> fromSq, to |-> to, kind |-> "promotion", promo |-> PromoTypes[i], castle |-> ""]]

CastleMove(fromSq, to, side) ==
  [from |-> fromSq, to |-> to, kind |-> "castle", promo |-> "", castle |-> side]

IsOwnFreshRook(rook, color) ==
  rook # Null /\ rook.type = "R" /\ rook.color = color /\ ~rook.hasMoved

CastleSides == <<"K", "Q">>

\* per side: the files that must be empty, the rook's file, the files the king crosses
\* (after its origin) and the file it lands on
CastleFiles(side) ==
  IF side = "K" THEN [empty |-> {5, 6}, rook |-> 7, crossed |-> {5, 6}, dest |-> 6]
                ELSE [empty |-> {1, 2, 3}, rook |-> 0, crossed |-> {3, 2}, dest |-> 2]

HomeRank(color) == IF color = "w" THEN 0 ELSE 7

\* castleRights K/Q for white, k/q for black
RightName(color, side) ==
  IF color = "w" THEN side ELSE IF side = "K" THEN "k" ELSE "q"

\* Castle without the attack test on the king's squares
CastleUnguarded(state, color, fromSq, rk, side, g) ==
  IF /\ state.castleRights[RightName(color, side)]
     /\ \A f \in g.empty : pieceAt(state, SqAt(f, rk)) = Null
     /\ IsOwnFreshRook(pieceAt(state, SqAt(g.rook, rk)), color)
  THEN <<CastleMove(fromSq, SqAt(g.dest, rk), side)>>
  ELSE << >>

\* Castle without the test of the king's own square
CastleFromAttackedOrigin(state, color, fromSq, rk, side, g) ==
  IF /\ state.castleRights[RightName(color, side)]
     /\ \A f \in g.empty : pieceAt(state, SqAt(f, rk)) = Null
     /\ IsOwnFreshRook(pieceAt(state, SqAt(g.rook, rk)), color)
     /\ \A sq \in {SqAt(f, rk) : f \in g.crossed} :
          ~isSquareAttacked(state, sq, Opp(color))
  THEN <<CastleMove(fromSq, SqAt(g.dest, rk), side)>>
  ELSE << >>

Castle(state, color, fromSq, rk, side, g) ==
  IF /\ state.castleRights[RightName(color, side)]
     /\ \A f \in g.empty : pieceAt(state, SqAt(f, rk)) = Null
     /\ IsOwnFreshRook(pieceAt(state, SqAt(g.rook, rk)), color)
     /\ \A sq \in {fromSq} \cup {SqAt(f, rk) : f \in g.crossed} :
          ~isSquareAttacked(state, sq, Opp(color))
  THEN <<CastleMove(fromSq, SqAt(g.dest, rk), side)>>
  ELSE << >>

KingMoves(state, p, fromSq) ==
  StepMoves(state, p, fromSq, KingT[fromSq])
  \o (IF ~p.hasMoved
      THEN ConcatAll([i \in 1..Len(CastleSides) |->
                        Castle(state, p.color, fromSq, HomeRank(p.color),
                               CastleSides[i], CastleFiles(CastleSides[i]))])
      ELSE << >>)

PawnForward(state, p, fromSq) ==
  LET dir == IF p.color = "w" THEN 1 ELSE -1
      startRank == IF p.color = "w" THEN 1 ELSE 6
      finalRank == IF p.color = "w" THEN 7 ELSE 0
      f0 == FileOf(fromSq)
      r0 == RankOf(fromSq)
      r1 == r0 + dir
      r2 == r0 + 2 * dir
  IN IF r1 >= 0 /\ r1 < 8 /\ pieceAt(state, SqAt(f0, r1)) = Null
     THEN IF r1 = finalRank
          THEN Promotions(fromSq, SqAt(f0, r1))
          ELSE Add(state, p, fromSq, SqAt(f0, r1), "move")
               \o (IF r0 = startRank /\ r2 >= 0 /\ r2 < 8 /\ pieceAt(state, SqAt(f0, r2)) = Null
                   THEN Add(state, p, fromSq, SqAt(f0, r2), "move")
                   ELSE << >>)
     ELSE << >>

PawnCapture(state, p, fromSq, df) ==
  LET dir == IF p.color = "w" THEN 1 ELSE -1
      finalRank == IF p.color = "w" THEN 7 ELSE 0
      f == FileOf(fromSq) + df
      r == RankOf(fromSq) + dir
  IN IF OnBoard(f, r) /\ pieceAt(state, SqAt(f, r)) # Null
                      /\ pieceAt(state, SqAt(f, r)).color # p.color
     THEN IF r = finalRank THEN Promotions(fromSq, SqAt(f, r))
          ELSE Add(state, p, fromSq, SqAt(f, r), "capture")
     ELSE << >>

PawnMoves(state, p, fromSq) ==
  PawnForward(state, p, fromSq) \o PawnCapture(state, p, fromSq, -1)
                                \o PawnCapture(state, p, fromSq, 1)

\* one destination of the exclusive-network activation loop
ExclusiveActivation(state, p, fromSq, dest) ==
  LET occupant == pieceAt(state, dest)
      noRet == state.personalNoReturn[p.color]
  IN IF dest = fromSq THEN << >>
     ELSE IF occupant # Null /\ occupant.color = p.color THEN << >>
     ELSE IF fromSq \in DOMAIN noRet /\ noRet[fromSq] = dest THEN << >>
     ELSE <<Base(fromSq, dest, "portal-activation")>>

ExclusiveActivations(state, p, fromSq, network) ==
  ConcatAll([i \in 1..Len(network) |-> ExclusiveActivation(state, p, fromSq, network[i])])

\* NeutralActivation without the cooldown test
NeutralActivationAnyTime(state, p, fromSq, mate) ==
  IF /\ mate # BadSquare
     /\ ~(pieceAt(state, mate) # Null /\ pieceAt(state, mate).color = p.color)
  THEN <<Base(fromSq, mate, "portal-activation")>>
  ELSE << >>

NeutralActivation(state, p, fromSq, mate) ==
  IF /\ ~state.neutralSwapCooldown[p.color]
     /\ mate # BadSquare
     /\ ~(pieceAt(state, mate) # Null /\ pieceAt(state, mate).color = p.color)
  THEN <<Base(fromSq, mate, "portal-activation")>>
  ELSE << >>

ActivationsFor(state, p, fromSq, portalType) ==
  IF portalType = "exclusive"
  THEN ExclusiveActivations(state, p, fromSq, NetworkOf(p.color))
  ELSE IF portalType = "neutral"
  THEN NeutralActivation(state, p, fromSq, neutralMate(fromSq))
  ELSE << >>

PortalActivations(state, p, fromSq) ==
  ActivationsFor(state, p, fromSq, isPortalFor(p.color, fromSq))

PieceMoves(state, p, fromSq) ==
  CASE p.type = "N" -> StepMoves(state, p, fromSq, KnightT[fromSq])
    [] p.type = "B" -> addRays(state, p, fromSq, BishopDirs)
    [] p.type = "R" -> addRays(state, p, fromSq, RookDirs)
    [] p.type = "Q" -> addRays(state, p, fromSq, QueenDirs)
    [] p.type = "K" -> KingMoves(state, p, fromSq)
    [] p.type = "P" -> PawnMoves(state, p, fromSq)
    [] OTHER -> << >>

\* MovesOf without the side-to-move test
MovesOfAnySide(state, p, fromSq) ==
  IF p = Null THEN << >>
  ELSE PieceMoves(state, p, fromSq) \o PortalActivations(state, p, fromSq)

MovesOf(state, p, fromSq) ==
  IF p = Null \/ p.color # state.turn THEN << >>
  ELSE PieceMoves(state, p, fromSq) \o PortalActivations(state, p, fromSq)

\* fromSq is a valid index here; a malformed label never gets past sqToIndex
generatePseudoLegalMoves(state, fromSq) == MovesOf(state, pieceAt(state, fromSq), fromSq)

ExpandAll(state, baseMoves) ==
  ConcatAll([i \in 1..Len(baseMoves) |-> expandWithPortalOutcomes(state, baseMoves[i])])

\* what a call leaves: an error thrown, or the sequence returned
Thrown == [threw |-> TRUE, out |-> << >>]
Returned(seq) == [threw |-> FALSE, out |-> seq]

\* generatePseudoLegalMoves called with a label: pieceAt goes through sqToIndex, which
\* throws on a label it rejects, and nothing in the generator catches that
generateFromLabel(state, fromSqRaw) ==
  IF sqToIndex(fromSqRaw) = BadSquare THEN Thrown
  ELSE Returned(generatePseudoLegalMoves(state, sqToIndex(fromSqRaw)))

\* expandWithPortalOutcomes called with the labels of a BaseMove: a promotion is
\* resolved without a look at the board; otherwise pieceAt throws on a rejected origin
\* label (and, for an activation, on a rejected destination label), and reading
\* mover.color throws when the origin is empty
expandFromLabels(state, kind, fromRaw, toRaw) ==
  IF kind = "promotion"
  THEN Returned(expandWithPortalOutcomes(state, Base(sqToIndex(fromRaw), sqToIndex(toRaw), kind)))
  ELSE IF sqToIndex(fromRaw) = BadSquare THEN Thrown
  ELSE IF kind = "portal-activation" /\ sqToIndex(toRaw) = BadSquare THEN Thrown
  ELSE IF pieceAt(state, sqToIndex(fromRaw)) = Null THEN Thrown
  ELSE Returned(expandWithPortalOutcomes(state, Base(sqToIndex(fromRaw), sqToIndex(toRaw), kind)))

\* all resolved outcomes of the piece on fromSq, in generation order
OutcomesFrom(state, fromSq) == ExpandAll(state, generatePseudoLegalMoves(state, fromSq))

-----------------------------------------------------------------------------
(* applyResolvedMove *)

A1 == sqToIndex(<<"A", "1">>)
H1 == sqToIndex(<<"H", "1">>)
A8 == sqToIndex(<<"A", "8">>)
H8 == sqToIndex(<<"H", "8">>)

\* the four "if (sq === 'A1') castleRights.Q = false" lines
\* ClearRookRight leaving every right as it was
KeepRookRight(cr, sq) == cr

ClearRookRight(cr, sq) ==
  [Q |-> cr.Q /\ sq # A1, K |-> cr.K /\ sq # H1,
   q |-> cr.q /\ sq # A8, k |-> cr.k /\ sq # H8]

ClearKingRights(cr, color) ==
  IF color = "w" THEN [cr EXCEPT !.K = FALSE, !.Q = FALSE]
  ELSE [cr EXCEPT !.k = FALSE, !.q = FALSE]

Moved(p) == [p EXCEPT !.hasMoved = TRUE]

\* turn switch, move number, history push
Advance(state, next, resolved) ==
  LET t == Opp(state.turn)
  IN [next EXCEPT !.turn = t,
                  !.moveNumber = IF t = "w" THEN @ + 1 ELSE @,
                  !.history = Append(@, resolved)]

\* promote pending no-return of the side about to move, then clear the mover's active map
PromotePending(next, moverColor) ==
  LET upcoming == next.turn
      pend == next.pendingPersonalNoReturn[upcoming]
      promoted == IF DOMAIN pend # {}
                  THEN [next EXCEPT !.personalNoReturn[upcoming] = pend,
                                    !.pendingPersonalNoReturn[upcoming] = EmptyMap]
                  ELSE next
  IN [promoted EXCEPT !.personalNoReturn[moverColor] = EmptyMap]

\* the cases in which applyResolvedMove throws
ApplyThrows(state, resolved) ==
  \/ pieceAt(state, resolved.from) = Null
  \/ (resolved.kind = "promotion" /\ resolved.promo = "")

\* ApplyCastle leaving the mover's cooldown flag as it was
ApplyCastleKeepCooldown(state, resolved, mover) ==
  LET color == mover.color
      rk == IF color = "w" THEN 0 ELSE 7
      kingDest == resolved.to
      rookFrom == IF resolved.castle = "K" THEN SqAt(7, rk) ELSE SqAt(0, rk)
      rookTo   == IF resolved.castle = "K" THEN SqAt(5, rk) ELSE SqAt(3, rk)
      b1 == [state.board EXCEPT ![resolved.from] = Null]
      b2 == [b1 EXCEPT ![kingDest] = Moved(mover)]
      rook == b2[rookFrom]
      b3 == IF rook # Null /\ rook.type = "R" /\ rook.color = color
            THEN [b2 EXCEPT ![rookFrom] = Null, ![rookTo] = Moved(rook)]
            ELSE b2
      next == [state EXCEPT !.enPassantTarget = BadSquare,
                            !.board = b3,
                            !.castleRights = ClearKingRights(@, color)]
  IN Advance(state, next, resolved)

ApplyCastle(state, resolved, mover) ==
  LET color == mover.color
      rk == IF color = "w" THEN 0 ELSE 7
      kingDest == resolved.to
      rookFrom == IF resolved.castle = "K" THEN SqAt(7, rk) ELSE SqAt(0, rk)
      rookTo   == IF resolved.castle = "K" THEN SqAt(5, rk) ELSE SqAt(3, rk)
      b1 == [state.board EXCEPT ![resolved.from] = Null]
      b2 == [b1 EXCEPT ![kingDest] = Moved(mover)]
      rook == b2[rookFrom]
      b3 == IF rook # Null /\ rook.type = "R" /\ rook.color = color
            THEN [b2 EXCEPT ![rookFrom] = Null, ![rookTo] = Moved(rook)]
            ELSE b2
      next == [state EXCEPT !.enPassantTarget = BadSquare,
                            !.board = b3,
                            !.castleRights = ClearKingRights(@, color),
                            !.neutralSwapCooldown[color] = FALSE]
  IN Advance(state, next, resolved)

\* ApplyPromotion putting the pawn itself on the final rank
ApplyPromotionKeepingPawn(state, resolved, mover) ==
  LET destSq == resolved.toFinal
      cap == state.board[destSq]
      captured == cap # Null /\ cap.color # mover.color
      b1 == [state.board EXCEPT ![resolved.from] = Null]
      b2 == [b1 EXCEPT ![destSq] = Moved(mover)]
      next == [state EXCEPT !.enPassantTarget = BadSquare,
                            !.board = b2,
                            !.castleRights = IF captured THEN ClearRookRight(@, destSq) ELSE @,
                            !.halfmoveClock = 0,
                            !.neutralSwapCooldown[mover.color] = FALSE]
  IN PromotePending(Advance(state, next, resolved), mover.color)

ApplyPromotion(state, resolved, mover) ==
  LET destSq == resolved.toFinal
      cap == state.board[destSq]
      captured == cap # Null /\ cap.color # mover.color
      b1 == [state.board EXCEPT ![resolved.from] = Null]
      b2 == [b1 EXCEPT ![destSq] = [type |-> resolved.promo, color |-> mover.color,
                                    hasMoved |-> TRUE]]
      next == [state EXCEPT !.enPassantTarget = BadSquare,
                            !.board = b2,
                            !.castleRights = IF captured THEN ClearRookRight(@, destSq) ELSE @,
                            !.halfmoveClock = 0,
                            !.neutralSwapCooldown[mover.color] = FALSE]
  IN PromotePending(Advance(state, next, resolved), mover.color)

\* the neutral-swap test of the swap branch
SwapIsNeutral(resolved) ==
  \/ resolved.viaPortal.network = "neutral"
  \/ isPortalFor("-", resolved.viaPortal.entry) = "neutral"
  \/ isPortalFor("-", resolved.toFinal) = "neutral"

\* CooldownAfter without the victim's flag: only the mover's flag is consumed
CooldownAfterNoVictim(cd, resolved, mover) == [cd EXCEPT ![mover.color] = FALSE]

\* cooldown flags after the move: victim set by a neutral swap, mover's flag consumed
CooldownAfter(cd, resolved, mover) ==
  LET victimColor == Opp(mover.color)
      c1 == IF resolved.viaPortal.swapped /\ SwapIsNeutral(resolved)
            THEN [cd EXCEPT ![victimColor] = TRUE] ELSE cd
  IN [c1 EXCEPT ![mover.color] = FALSE]

\* PendingAfter taking the square the piece set out from as the origin
PendingAfterFromOrigin(pend, resolved, mover) ==
  LET via == resolved.viaPortal
      usedPortalJump == via.present /\ via.choice # NoText /\ via.choice # STAY
  IN IF via.network = "exclusive" /\ usedPortalJump
     THEN [pend EXCEPT ![mover.color] = MapPut(@, resolved.toFinal, resolved.from)]
     ELSE pend

\* pendingPersonalNoReturn after the move
PendingAfter(pend, resolved, mover) ==
  LET via == resolved.viaPortal
      usedPortalJump == via.present /\ via.choice # NoText /\ via.choice # STAY
  IN IF via.network = "exclusive" /\ usedPortalJump
     THEN [pend EXCEPT ![mover.color] = MapPut(@, resolved.toFinal, via.entry)]
     ELSE pend

\* ApplyOrdinary with the swapped piece taken off the board instead of put on the entry
ApplyOrdinaryLosingVictim(state, resolved, mover) ==
  LET b0 == IF resolved.kind = "capture"
            THEN [state.board EXCEPT ![resolved.to] = Null] ELSE state.board
      cr0 == IF resolved.kind = "capture"
             THEN ClearRookRight(state.castleRights, resolved.to) ELSE state.castleRights
      b1 == [b0 EXCEPT ![resolved.from] = Null]
      b2 == IF resolved.viaPortal.swapped
            THEN LET opponent == b1[resolved.toFinal]
                     b11 == [b1 EXCEPT ![resolved.toFinal] = Moved(mover)]
                 IN [b11 EXCEPT ![resolved.viaPortal.entry] = Null]
            ELSE [b1 EXCEPT ![resolved.toFinal] = Moved(mover)]
      cr1 == IF mover.type = "K" THEN ClearKingRights(cr0, mover.color)
             ELSE IF mover.type = "R" THEN ClearRookRight(cr0, resolved.from)
             ELSE cr0
      next == [state EXCEPT !.enPassantTarget = BadSquare,
                            !.board = b2,
                            !.castleRights = cr1,
                            !.neutralSwapCooldown = CooldownAfter(@, resolved, mover),
                            !.pendingPersonalNoReturn = PendingAfter(@, resolved, mover)]
  IN PromotePending(Advance(state, next, resolved), mover.color)

ApplyOrdinary(state, resolved, mover) ==
  LET b0 == IF resolved.kind = "capture"
            THEN [state.board EXCEPT ![resolved.to] = Null] ELSE state.board
      cr0 == IF resolved.kind = "capture"
             THEN ClearRookRight(state.castleRights, resolved.to) ELSE state.castleRights
      b1 == [b0 EXCEPT ![resolved.from] = Null]
      b2 == IF resolved.viaPortal.swapped
            THEN LET opponent == b1[resolved.toFinal]
                     b11 == [b1 EXCEPT ![resolved.toFinal] = Moved(mover)]
                 IN [b11 EXCEPT ![resolved.viaPortal.entry] = opponent]
            ELSE [b1 EXCEPT ![resolved.toFinal] = Moved(mover)]
      cr1 == IF mover.type = "K" THEN ClearKingRights(cr0, mover.color)
             ELSE IF mover.type = "R" THEN ClearRookRight(cr0, resolved.from)
             ELSE cr0
      next == [state EXCEPT !.enPassantTarget = BadSquare,
                            !.board = b2,
                            !.castleRights = cr1,
                            !.neutralSwapCooldown = CooldownAfter(@, resolved, mover),
                            !.pendingPersonalNoReturn = PendingAfter(@, resolved, mover)]
  IN PromotePending(Advance(state, next, resolved), mover.color)

\* defined when ~ApplyThrows(state, resolved)
applyResolvedMove(state, resolved) ==
  LET mover == state.board[resolved.from]
  IN IF resolved.kind = "castle" THEN ApplyCastle(state, resolved, mover)
     ELSE IF resolved.kind = "promotion" THEN ApplyPromotion(state, resolved, mover)
     ELSE ApplyOrdinary(state, resolved, mover)

-----------------------------------------------------------------------------
(* inCheck and filterLegalByCheck *)

HasKing(state, color) ==
  \E i \in Squares : state.board[i].type = "K" /\ state.board[i].color = color

\* the first square, in index order, holding color's king
KingSquare(state, color) ==
  LET ks == {i \in Squares : state.board[i].type = "K" /\ state.board[i].color = color}
  IN CHOOSE i \in ks : \A j \in ks : i <= j

\* with opponent to move in tmp, some outcome of some opponent piece lands on kingSq
Threatens(tmp, opponent, kingSq) ==
  \E i \in Squares :
    /\ tmp.board[i].color = opponent
    /\ Lands(OutcomesFrom(tmp, i), kingSq)

\* inCheck counting only the outcomes that go through no portal
inCheckOffPortals(state, color) ==
  /\ HasKing(state, color)
  /\ \E i \in Squares :
       /\ state.board[i].color = Opp(color)
       /\ \E o \in Range(OutcomesFrom([state EXCEPT !.turn = Opp(color)], i)) :
            o.toFinal = KingSquare(state, color) /\ ~o.viaPortal.present

inCheck(state, color) ==
  /\ HasKing(state, color)
  /\ Threatens([state EXCEPT !.turn = Opp(color)], Opp(color), KingSquare(state, color))

\* the loop of filterLegalByCheck, from index i on
RECURSIVE FilterFrom(_, _, _)
FilterFrom(state, resolvedMoves, i) ==
  IF i > Len(resolvedMoves) THEN << >>
  ELSE LET m == resolvedMoves[i]
           keep == /\ ~ApplyThrows(state, m)
                   /\ ~inCheck(applyResolvedMove(state, m), state.turn)
       IN (IF keep THEN <<m>> ELSE << >>) \o FilterFrom(state, resolvedMoves, i + 1)

\* filterLegalByCheck testing the check of the wrong side
filterByOpponentCheck(state, resolvedMoves) ==
  SelectSeq(resolvedMoves,
            LAMBDA m : /\ ~ApplyThrows(state, m)
                       /\ ~inCheck(applyResolvedMove(state, m), Opp(state.turn)))

filterLegalByCheck(state, resolvedMoves) == FilterFrom(state, resolvedMoves, 1)

-----------------------------------------------------------------------------
(* gameResult: imported by server.js from engine.js, whose definition is not *)
(* part of the sources at hand; taken from section 4.6 of the specification. *)

HasLegalMove(state) ==
  \E i \in Squares :
    /\ state.board[i].color = state.turn
    /\ filterLegalByCheck(state, OutcomesFrom(state, i)) # << >>

\* gameResult calling every position without a legal move a checkmate
gameResultMateOnly(state) ==
  IF HasLegalMove(state) THEN [result |-> "ongoing", winner |-> "-"]
  ELSE [result |-> "checkmate", winner |-> Opp(state.turn)]

gameResult(state) ==
  IF HasLegalMove(state) THEN [result |-> "ongoing", winner |-> "-"]
  ELSE IF inCheck(state, state.turn)
  THEN [result |-> "checkmate", winner |-> Opp(state.turn)]
  ELSE [result |-> "stalemate", winner |-> "-"]

-----------------------------------------------------------------------------
(* Room coordinator (server.js) *)

DefaultMinutes == 10

\* createRoom payloads: timeMinutes in tenths of a minute, or absent
NoTime == [has |-> FALSE, tenths |-> 0]
Minutes(tenths) == [has |-> TRUE, tenths |-> tenths]

\* parseInt(x, 10) of a number given in tenths: the integer part, truncated toward zero
parseInt(tenths) == IF tenths >= 0 THEN tenths \div 10 ELSE -((-tenths) \div 10)

Max(a, b) == IF a >= b THEN a ELSE b

\* a budget taken from any payload that carries a number, without the validation
timeMsUnvalidated(payload) ==
  Max(1, IF payload.has THEN parseInt(payload.tenths) ELSE DefaultMinutes) * 60 * 1000

\* the clock budget computed by createRoom
timeMs(payload) ==
  LET pm == parseInt(payload.tenths)
      timeMinutes == IF payload.has /\ payload.tenths # 0 /\ pm > 0 THEN pm ELSE DefaultMinutes
  IN Max(1, timeMinutes) * 60 * 1000

NewRoom(sock, payload, t) ==
  [sockets |-> <<sock>>, state |-> initialState, locked |-> FALSE, host |-> sock,
   over |-> FALSE, clock |-> [w |-> timeMs(payload), b |-> timeMs(payload)],
   lastTick |-> t, clockInterval |-> FALSE]

\* Set.prototype.add on an insertion-ordered set
SetAdd(seq, x) == IF x \in Range(seq) THEN seq ELSE Append(seq, x)
SetDelete(seq, x) == SelectSeq(seq, LAMBDA y : y # x)

MapRemove(m, k) == [x \in (DOMAIN m) \ {k} |-> m[x]]

\* emitted events
Ack(code) == [ev |-> "ack", code |-> code]
EvClock(roomId, room, turn, ts) ==
  [ev |-> "clock", to |-> roomId, clocks |-> room.clock, turn |-> turn, ts |-> ts]
EvGameEnd(roomId, result, winner) ==
  [ev |-> "gameEnd", to |-> roomId, result |-> result, winner |-> winner]
EvMoveMade(roomId, chosen, room) ==
  [ev |-> "moveMade", to |-> roomId, resolved |-> chosen, state |-> room.state,
   clocks |-> room.clock]
EvGameStart(sock, roomId, color, room) ==
  [ev |-> "gameStart", to |-> sock, roomId |-> roomId, color |-> color,
   state |-> room.state, clocks |-> room.clock]
EvPlayerJoined(host, sock) == [ev |-> "playerJoined", to |-> host, socketId |-> sock]
EvPlayerLeft(roomId, sock) == [ev |-> "playerLeft", to |-> roomId, socketId |-> sock]

ColourName(c) == IF c = "w" THEN "white" ELSE IF c = "b" THEN "black" ELSE "-"

\* startRoomClock on an existing room
startRoomClock(room, t) ==
  IF room.clockInterval THEN room
  ELSE [room EXCEPT !.lastTick = t, !.clockInterval = TRUE]

stopRoomClock(room) == [room EXCEPT !.clockInterval = FALSE]

\* tickRoomClock without the floor at 0
tickRoomClockNoFloor(roomId, room, t) ==
  IF room.over \/ ~room.locked THEN [room |-> room, out |-> << >>]
  ELSE LET turn == room.state.turn
           r1 == [room EXCEPT !.lastTick = t, !.clock[turn] = @ - (t - room.lastTick)]
       IN IF r1.clock[turn] <= 0
          THEN [room |-> stopRoomClock([r1 EXCEPT !.over = TRUE]),
                out |-> <<EvClock(roomId, r1, turn, t),
                          EvGameEnd(roomId, "timeout", ColourName(Opp(turn)))>>]
          ELSE [room |-> r1, out |-> <<EvClock(roomId, r1, turn, t)>>]

\* tickRoomClock naming the side that ran out of time as the winner
tickRoomClockWinnerSwapped(roomId, room, t) ==
  IF room.over \/ ~room.locked THEN [room |-> room, out |-> << >>]
  ELSE LET turn == room.state.turn
           r1 == [room EXCEPT !.lastTick = t, !.clock[turn] = Max(0, @ - (t - room.lastTick))]
       IN IF r1.clock[turn] <= 0
          THEN [room |-> stopRoomClock([r1 EXCEPT !.over = TRUE]),
                out |-> <<EvClock(roomId, r1, turn, t),
                          EvGameEnd(roomId, "timeout", ColourName(turn))>>]
          ELSE [room |-> r1, out |-> <<EvClock(roomId, r1, turn, t)>>]

\* tickRoomClock on an existing room at time t: the room afterwards and what was emitted
tickRoomClock(roomId, room, t) ==
  IF room.over \/ ~room.locked THEN [room |-> room, out |-> << >>]
  ELSE LET delta == t - (IF room.lastTick # 0 THEN room.lastTick ELSE t)
           turn == room.state.turn
           r1 == [room EXCEPT !.lastTick = t,
                              !.clock[turn] = Max(0, @ - delta)]
       IN IF r1.clock[turn] <= 0
          THEN [room |-> stopRoomClock([r1 EXCEPT !.over = TRUE]),
                out |-> <<EvClock(roomId, r1, turn, t),
                          EvGameEnd(roomId, "timeout", ColourName(Opp(turn)))>>]
          ELSE [room |-> r1, out |-> <<EvClock(roomId, r1, turn, t)>>]

\* the filter of the makeMove handler: does outcome o match the client's resolved move
Matches(o, resolved) ==
  LET aTo == indexToSq(o.toFinal)
      bTo == toUpperCase(IF resolved.toFinal # NoText THEN resolved.toFinal ELSE resolved.to)
      aChoice == IF o.viaPortal.present /\ o.viaPortal.choice # NoText
                 THEN toUpperCase(o.viaPortal.choice) ELSE NoText
      bChoice == toUpperCase(resolved.choice)
  IN /\ aTo = bTo
     /\ o.kind = resolved.kind
     /\ o.promo = resolved.promo
     /\ aChoice = bChoice

\* LegalOutcomes over every piece of the side to move instead of the one on fromSq
LegalOutcomesAnyOrigin(state, fromSq) ==
  filterLegalByCheck(state, ConcatAll([i \in 1..64 |-> OutcomesFrom(state, i - 1)]))

\* the server's own legal outcomes for the piece on fromSq
LegalOutcomes(state, fromSq) == filterLegalByCheck(state, OutcomesFrom(state, fromSq))

\* gameEnd detection after an applied move, res being gameResult of the new position
EndOn(roomId, room, res) ==
  IF res.result # "ongoing"
  THEN [room |-> stopRoomClock([room EXCEPT !.over = TRUE]),
        out |-> IF res.result = "checkmate"
                THEN <<EvGameEnd(roomId, "checkmate", ColourName(res.winner))>>
                ELSE <<EvGameEnd(roomId, "stalemate", "-")>>]
  ELSE [room |-> room, out |-> << >>]

EndDetection(roomId, room) == EndOn(roomId, room, gameResult(room.state))

\* what the accepting path leaves: the room after end detection, and the events in the
\* order emitted: those of the pre-apply tick, moveMade, clock, those of end detection
Broadcast(roomId, tickOut, chosen, room, ended, t) ==
  [room |-> ended.room,
   out |-> tickOut
           \o <<EvMoveMade(roomId, chosen, room), EvClock(roomId, room, room.state.turn, t)>>
           \o ended.out]

\* room.state = nextState; room.lastTick = Date.now(); then broadcasts and end detection
ApplyChosen(roomId, tickOut, chosen, room, t) ==
  Broadcast(roomId, tickOut, chosen, room, EndDetection(roomId, room), t)

AcceptTicked(roomId, ticked, chosen, nextState, t) ==
  ApplyChosen(roomId, ticked.out, chosen,
              [ticked.room EXCEPT !.state = nextState, !.lastTick = t], t)

\* AcceptMove ticking after the move is applied, when the turn has passed on
AcceptMoveTickAfter(roomId, room, chosen, t) ==
  AcceptTicked(roomId,
               tickRoomClock(roomId,
                             [room EXCEPT !.state = applyResolvedMove(room.state, chosen)], t),
               chosen, applyResolvedMove(room.state, chosen), t)

\* the accepting path of makeMove: pre-apply tick, apply, broadcasts, end detection
AcceptMove(roomId, room, chosen, t) ==
  AcceptTicked(roomId, tickRoomClock(roomId, room, t), chosen,
               applyResolvedMove(room.state, chosen), t)

Refuse(rms, code) == [code |-> code, rooms |-> rms, out |-> << >>]

Accepted(rms, roomId, acc) ==
  [code |-> "ok", rooms |-> [rms EXCEPT ![roomId] = acc.room], out |-> acc.out]

\* matches = outcomes.filter(...); none is "illegal-move", else matches[0] is applied
Decide(rms, data, room, matches, t) ==
  IF matches = << >> THEN Refuse(rms, "illegal-move")
  ELSE Accepted(rms, data.roomId, AcceptMove(data.roomId, room, matches[1], t))

MatchingOutcomes(outcomes, resolved) == SelectSeq(outcomes, LAMBDA o : Matches(o, resolved))

\* a label sqToIndex rejects makes the generator throw, which the handler answers
\* with "server-error"
Validate(rms, data, room, from, t) ==
  IF from = BadSquare THEN Refuse(rms, "server-error")
  ELSE Decide(rms, data, room,
              MatchingOutcomes(LegalOutcomes(room.state, from), data.resolved), t)

\* InRoom charging the clock on receipt, before the move is validated
InRoomTickFirst(rms, data, room, t) ==
  IF ~room.locked THEN Refuse(rms, "not-ready")
  ELSE IF room.over THEN Refuse(rms, "game-over")
  ELSE Validate([rms EXCEPT ![data.roomId] = tickRoomClock(data.roomId, room, t).room],
                data, tickRoomClock(data.roomId, room, t).room,
                sqToIndex(toUpperCase(data.resolved.from)), t)

\* InRoom without the test of room.over
InRoomNoOverTest(rms, data, room, t) ==
  IF ~room.locked THEN Refuse(rms, "not-ready")
  ELSE Validate(rms, data, room, sqToIndex(toUpperCase(data.resolved.from)), t)

InRoom(rms, data, room, t) ==
  IF ~room.locked THEN Refuse(rms, "not-ready")
  ELSE IF room.over THEN Refuse(rms, "game-over")
  ELSE Validate(rms, data, room, sqToIndex(toUpperCase(data.resolved.from)), t)

\* the makeMove handler: acknowledgement code, room table afterwards, events emitted
makeMove(rms, data, t) ==
  IF data.roomId = "" \/ ~data.hasResolved THEN Refuse(rms, "invalid-payload")
  ELSE IF data.roomId \notin DOMAIN rms THEN Refuse(rms, "not-found")
  ELSE InRoom(rms, data, rms[data.roomId], t)

\* joinRoom admitting a socket to a locked room as well
joinRoomAnyRoom(rms, sock, roomId, t) ==
  IF roomId = "" THEN [code |-> "missing-room-id", rooms |-> rms, out |-> << >>]
  ELSE IF roomId \notin DOMAIN rms THEN [code |-> "not-found", rooms |-> rms, out |-> << >>]
  ELSE LET room == rms[roomId] IN
    LET r1 == [room EXCEPT !.sockets = SetAdd(@, sock)] IN
      IF Len(r1.sockets) >= 2
      THEN LET r2 == [r1 EXCEPT !.locked = TRUE]
               ids == r2.sockets
               whiteId == r2.host
               others == SelectSeq(ids, LAMBDA id : id # whiteId)
               blackId == IF others # << >> THEN others[1] ELSE ids[2]
           IN [code |-> "ok",
               rooms |-> [rms EXCEPT ![roomId] = startRoomClock(r2, t)],
               out |-> <<EvGameStart(whiteId, roomId, "w", r2),
                         EvGameStart(blackId, roomId, "b", r2)>>]
      ELSE [code |-> "ok",
            rooms |-> [rms EXCEPT ![roomId] = r1],
            out |-> <<EvPlayerJoined(r1.host, sock)>>]

\* the joinRoom handler
joinRoom(rms, sock, roomId, t) ==
  IF roomId = "" THEN [code |-> "missing-room-id", rooms |-> rms, out |-> << >>]
  ELSE IF roomId \notin DOMAIN rms THEN [code |-> "not-found", rooms |-> rms, out |-> << >>]
  ELSE LET room == rms[roomId] IN
    IF room.locked THEN [code |-> "room-locked", rooms |-> rms, out |-> << >>]
    ELSE LET r1 == [room EXCEPT !.sockets = SetAdd(@, sock)] IN
      IF Len(r1.sockets) >= 2
      THEN LET r2 == [r1 EXCEPT !.locked = TRUE]
               ids == r2.sockets
               whiteId == r2.host
               others == SelectSeq(ids, LAMBDA id : id # whiteId)
               blackId == IF others # << >> THEN others[1] ELSE ids[2]
           IN [code |-> "ok",
               rooms |-> [rms EXCEPT ![roomId] = startRoomClock(r2, t)],
               out |-> <<EvGameStart(whiteId, roomId, "w", r2),
                         EvGameStart(blackId, roomId, "b", r2)>>]
      ELSE [code |-> "ok",
            rooms |-> [rms EXCEPT ![roomId] = r1],
            out |-> <<EvPlayerJoined(r1.host, sock)>>]

\* disconnect deleting an empty room without clearing its interval
RECURSIVE disconnectKeepTimer(_, _, _)
disconnectKeepTimer(rms, sock, ids) ==
  IF ids = << >> THEN [rooms |-> rms, out |-> << >>, cleared |-> {}]
  ELSE LET roomId == Head(ids)
           room == rms[roomId]
       IN IF sock \in Range(room.sockets)
          THEN LET r1 == [room EXCEPT !.sockets = SetDelete(@, sock)]
                   rms1 == IF r1.sockets = << >> THEN MapRemove(rms, roomId)
                           ELSE [rms EXCEPT ![roomId] = [r1 EXCEPT !.locked = FALSE]]
                   rest == disconnectKeepTimer(rms1, sock, Tail(ids))
               IN [rooms |-> rest.rooms,
                   out |-> <<EvPlayerLeft(roomId, sock)>> \o rest.out,
                   cleared |-> {}]
          ELSE disconnectKeepTimer(rms, sock, Tail(ids))

\* the disconnect handler, over the room ids in ids (iteration order of the table)
RECURSIVE disconnect(_, _, _)
disconnect(rms, sock, ids) ==
  IF ids = << >> THEN [rooms |-> rms, out |-> << >>, cleared |-> {}]
  ELSE LET roomId == Head(ids)
           room == rms[roomId]
       IN IF sock \in Range(room.sockets)
          THEN LET r1 == [room EXCEPT !.sockets = SetDelete(@, sock)]
                   rms1 == IF r1.sockets = << >> THEN MapRemove(rms, roomId)
                           ELSE [rms EXCEPT ![roomId] = [r1 EXCEPT !.locked = FALSE]]
                   rest == disconnect(rms1, sock, Tail(ids))
               IN [rooms |-> rest.rooms,
                   out |-> <<EvPlayerLeft(roomId, sock)>> \o rest.out,
                   cleared |-> IF r1.sockets = << >> /\ room.clockInterval
                               THEN rest.cleared \cup {roomId} ELSE rest.cleared]
          ELSE disconnect(rms, sock, Tail(ids))

-----------------------------------------------------------------------------
(* Bounds and inputs *)

MaxPly == 4          \* moves accepted per room
MaxNow == 80001      \* latest wall-clock time explored

Epoch == 1
TickPeriodMs == 250

SocketIds == {"s1", "s2", "s3"}
Players == {"s1", "s2"}
RoomIds == {"r1"}
Deltas == {40000}
CreatePayloads == {Minutes(10)}

NoResolved == [from |-> NoText, to |-> NoText, toFinal |-> NoText, kind |-> "",
               promo |-> "", choice |-> NoText]

Move(from, to, toFinal, kind, choice) ==
  [from |-> from, to |-> to, toFinal |-> toFinal, kind |-> kind, promo |-> "",
   choice |-> choice]

\* resolved moves a client may submit
ResolvedPayloads ==
  { Move(<<"F", "2">>, <<"F", "3">>, <<"F", "3">>, "move", NoText),
    Move(<<"e", "7">>, <<"e", "5">>, NoText, "move", NoText),
    Move(<<"G", "2">>, <<"G", "4">>, <<"G", "4">>, "move", STAY),
    Move(<<"D", "8">>, <<"H", "4">>, <<"H", "4">>, "move", NoText),
    Move(<<"E", "1">>, <<"F", "2">>, <<"F", "2">>, "move", NoText),
    Move(<<"B", "7">>, <<"B", "5">>, <<"B", "5">>, "move", <<"s", "t", "a", "y">>),
    Move(<<"G", "4">>, <<"B", "5">>, <<"B", "5">>, "portal-activation", <<"B", "5">>) }

LobbyResolved == { Move(<<"F", "2">>, <<"F", "3">>, <<"F", "3">>, "move", NoText) }

MoveData(roomId, resolved) == [roomId |-> roomId, hasResolved |-> TRUE, resolved |-> resolved]
NoData == [roomId |-> "", hasResolved |-> FALSE, resolved |-> NoResolved]

\* payloads that are malformed: no resolved move, a label sqToIndex rejects
ErrPayloads ==
  {[roomId |-> r, hasResolved |-> FALSE, resolved |-> NoResolved] : r \in RoomIds}
  \cup {MoveData(r, Move(<<"Z", "9">>, <<"E", "4">>, <<"E", "4">>, "move", NoText)) : r \in RoomIds}

MovePayloads == {MoveData(r, m) : r \in RoomIds, m \in ResolvedPayloads} \cup ErrPayloads
\* createRoom payloads of the lobby runs: 1 and 2 minutes, 0, -1, and no timeMinutes
LobbyCreatePayloads == {Minutes(10), Minutes(20), Minutes(0), Minutes(-10), NoTime}

LobbyPayloads == {MoveData(r, m) : r \in RoomIds, m \in LobbyResolved}

-----------------------------------------------------------------------------
(* State machine *)

Event(op, sock, roomId, code, data) ==
  [op |-> op, sock |-> sock, roomId |-> roomId, code |-> code, data |-> data]

Rejected(op, roomId, code) == Event(op, "", roomId, code, NoData)

\* a createRoom carried out, with the payload it came with
Created(sock, roomId, payload) ==
  [op |-> "createRoom", sock |-> sock, roomId |-> roomId, code |-> "ok", data |-> NoData,
   payload |-> payload]

CountEnds(evs, roomId) ==
  Cardinality({i \in 1..Len(evs) : evs[i].ev = "gameEnd" /\ evs[i].to = roomId})

InitWith(sockets) ==
  /\ rooms = << >>
  /\ now = Epoch
  /\ live = sockets
  /\ last = Event("init", "", "", "", NoData)
  /\ out = << >>
  /\ gameEnds = [r \in RoomIds |-> 0]
  /\ timers = {}
  /\ pos = initialState

Init == InitWith(Players)

\* setInterval and clearInterval as startRoomClock and stopRoomClock call them: a room
\* whose clockInterval became set has a new timer, one whose clockInterval became null
\* had its timer cleared
Started(before, after) ==
  {r \in DOMAIN before \cap DOMAIN after : ~before[r].clockInterval /\ after[r].clockInterval}
Stopped(before, after) ==
  {r \in DOMAIN before \cap DOMAIN after : before[r].clockInterval /\ ~after[r].clockInterval}
TimersAfter(tm, before, after) == (tm \cup Started(before, after)) \ Stopped(before, after)

\* wall-clock time passes
AdvanceTime ==
  \E d \in Deltas :
    /\ now + d <= MaxNow
    /\ now' = now + d
    /\ last' = Event("time", "", "", "", NoData)
    /\ out' = << >>
    /\ UNCHANGED <<rooms, live, gameEnds, timers, pos>>

\* makeRoomId draws an id not in use
CreateRoomWith(payloads) ==
  \E sock \in live, payload \in payloads, roomId \in RoomIds :
    /\ roomId \notin DOMAIN rooms
    /\ rooms' = MapPut(rooms, roomId, NewRoom(sock, payload, now))
    /\ last' = Created(sock, roomId, payload)
    /\ out' = <<Ack(roomId)>>
    /\ gameEnds' = [gameEnds EXCEPT ![roomId] = 0]
    /\ UNCHANGED <<now, live, timers, pos>>

CreateRoom == CreateRoomWith(CreatePayloads)

\* createRoom with any id makeRoomId can return, one in use included: rooms.set puts
\* the new room in the place of the old one, whose interval is not cleared
CreateRoomAnyId ==
  \E sock \in live, payload \in CreatePayloads, roomId \in RoomIds :
    /\ rooms' = MapPut(rooms, roomId, NewRoom(sock, payload, now))
    /\ last' = Created(sock, roomId, payload)
    /\ out' = <<Ack(roomId)>>
    /\ gameEnds' = [gameEnds EXCEPT ![roomId] = 0]
    /\ UNCHANGED <<now, live, timers, pos>>

JoinRoomWith(ids) ==
  \E sock \in live, roomId \in ids :
    LET res == joinRoom(rooms, sock, roomId, now)
    IN /\ rooms' = res.rooms
       /\ last' = IF res.code = "ok" THEN Event("joinRoom", sock, roomId, "ok", NoData)
                  ELSE Rejected("joinRoom", roomId, res.code)
       /\ out' = res.out \o <<Ack(res.code)>>
       /\ timers' = TimersAfter(timers, rooms, res.rooms)
       /\ UNCHANGED <<now, live, gameEnds, pos>>

JoinRoom == JoinRoomWith(RoomIds)

\* the interval timer of a room fires at time t
TickAt(roomId, t) ==
  /\ t <= MaxNow
  /\ roomId \in timers
  /\ IF roomId \in DOMAIN rooms
     THEN LET res == tickRoomClock(roomId, rooms[roomId], t)
          IN /\ rooms' = [rooms EXCEPT ![roomId] = res.room]
             /\ out' = res.out
             /\ gameEnds' = [gameEnds EXCEPT ![roomId] = @ + CountEnds(res.out, roomId)]
             /\ timers' = TimersAfter(timers, rooms, rooms')
     ELSE /\ out' = << >>
          /\ UNCHANGED <<rooms, gameEnds, timers>>
  /\ last' = Event("tick", "", roomId, "", NoData)
  /\ now' = t
  /\ UNCHANGED <<live, pos>>

Tick == \E roomId \in RoomIds : TickAt(roomId, now)

PlyOf(rms, roomId) ==
  IF roomId \in DOMAIN rms THEN Len(rms[roomId].state.history) ELSE 0

\* the handler's result res takes effect; the sender is recorded for a move carried out
Respond(data, res) ==
  /\ rooms' = res.rooms
  /\ out' = res.out \o <<Ack(res.code)>>
  /\ gameEnds' = [r \in RoomIds |-> gameEnds[r] + CountEnds(res.out, r)]
  /\ timers' = TimersAfter(timers, rooms, res.rooms)
  /\ IF res.code = "ok"
     THEN \E sock \in live : last' = Event("makeMove", sock, data.roomId, "ok", data)
     ELSE last' = Rejected("makeMove", data.roomId, res.code)

\* a client sends makeMove with one of the payloads
MakeMoveWith(payloads) ==
  \E data \in payloads :
    /\ live # {}
    /\ PlyOf(rooms, data.roomId) < MaxPly
    /\ Respond(data, makeMove(rooms, data, now))
    /\ UNCHANGED <<now, live, pos>>

MakeMove == MakeMoveWith(MovePayloads)

\* some fixed enumeration of a finite set
RECURSIVE SetToSeq(_)
SetToSeq(S) ==
  IF S = {} THEN << >>
  ELSE LET x == CHOOSE y \in S : TRUE IN <<x>> \o SetToSeq(S \ {x})

Disconnect ==
  \E sock \in live :
    LET res == disconnect(rooms, sock, SetToSeq(DOMAIN rooms))
    IN /\ rooms' = res.rooms
       /\ live' = live \ {sock}
       /\ last' = Event("disconnect", sock, "", "", NoData)
       /\ out' = res.out
       /\ timers' = timers \ res.cleared
       /\ UNCHANGED <<now, gameEnds, pos>>

Next == AdvanceTime \/ CreateRoom \/ JoinRoom \/ Tick \/ MakeMove \/ Disconnect

\* two players, one room, the full game
Spec == Init /\ [][Next]_vars

\* three sockets coming and going around one room, a single opening move
InitLobby == InitWith(SocketIds)

MakeMoveLobby == MakeMoveWith(LobbyPayloads)

CreateRoomLobby == CreateRoomWith(LobbyCreatePayloads)

\* joinRoom also with an empty room id
JoinRoomLobby == JoinRoomWith(RoomIds \cup {""})

NextLobby == AdvanceTime \/ CreateRoomLobby \/ JoinRoomLobby \/ Tick \/ MakeMoveLobby \/ Disconnect

SpecLobby == InitLobby /\ [][NextLobby]_vars

\* the ticker of a running room keeps firing, a tick period apart, and nobody moves or leaves
TickElapsed == \E roomId \in RoomIds : TickAt(roomId, now + TickPeriodMs)

NextLive == CreateRoom \/ JoinRoom \/ TickElapsed

SpecLive == Init /\ [][NextLive]_vars /\ WF_vars(TickElapsed)

\* a room asked for with timeMinutes = 0.1, joined at once and left to its ticker
BlitzPayloads == {Minutes(1)}

CreateRoomBlitz == CreateRoomWith(BlitzPayloads)

NextBlitz == CreateRoomBlitz \/ JoinRoom \/ TickElapsed

SpecBlitz == Init /\ [][NextBlitz]_vars /\ WF_vars(TickElapsed)

\* three sockets coming and going while every interval fires on time, a tick period
\* after the last event; nobody moves
RejoinUntil == 1501   \* latest time at which a tick of these runs is due

TickSoon == now + TickPeriodMs <= RejoinUntil /\ TickElapsed

NextRejoin == CreateRoom \/ JoinRoom \/ TickSoon \/ Disconnect

SpecRejoin == InitLobby /\ [][NextRejoin]_vars

\* two players and a single room id, which every createRoom draws again
NextCollide == AdvanceTime \/ CreateRoomAnyId \/ JoinRoom \/ Tick \/ MakeMove \/ Disconnect

SpecCollide == Init /\ [][NextCollide]_vars

-----------------------------------------------------------------------------
(* The engine alone: a game played by applying legal outcomes to a position *)

EnginePly == 2       \* outcomes applied to a starting position

\* piece on the square with the given file and rank characters
On(file, rank, piece) == sqToIndex(<<file, rank>>) :> piece

Setup(placed, rights) ==
  [initialState EXCEPT
     !.board = [i \in Squares |-> IF i \in DOMAIN placed THEN placed[i] ELSE Null],
     !.castleRights = rights]

\* kings and rooks only; wk and wr are White's king and king's rook
CastleBoard(wk, wr) ==
  On("E", "1", wk) @@ On("A", "1", Piece("R", "w")) @@ On("H", "1", wr)
  @@ On("E", "8", Piece("K", "b")) @@ On("A", "8", Piece("R", "b"))
  @@ On("H", "8", Piece("R", "b"))

\* nothing has moved; the white king has been out and back, with a pawn of each side
\* about to promote by capturing a rook in its corner; the white king's rook has
CastlePositions ==
  {Setup(CastleBoard(Piece("K", "w"), Piece("R", "w")),
         [K |-> TRUE, Q |-> TRUE, k |-> TRUE, q |-> TRUE]),
   Setup(CastleBoard(Moved(Piece("K", "w")), Piece("R", "w"))
           @@ On("G", "7", Moved(Piece("P", "w"))) @@ On("B", "2", Moved(Piece("P", "b"))),
         [K |-> FALSE, Q |-> FALSE, k |-> TRUE, q |-> TRUE]),
   Setup(CastleBoard(Piece("K", "w"), Moved(Piece("R", "w"))),
         [K |-> FALSE, Q |-> TRUE, k |-> TRUE, q |-> TRUE])}

\* a middle game around the portals: a white knight a move from B5, D5 and E4, a black
\* bishop on G4 and knight on D6, pawns about to promote, both kings able to castle short
PortalBoard ==
  On("E", "1", Piece("K", "w")) @@ On("H", "1", Piece("R", "w"))
  @@ On("C", "3", Moved(Piece("N", "w"))) @@ On("E", "3", Moved(Piece("P", "w")))
  @@ On("B", "7", Moved(Piece("P", "w")))
  @@ On("E", "8", Piece("K", "b")) @@ On("H", "8", Piece("R", "b"))
  @@ On("G", "4", Moved(Piece("B", "b"))) @@ On("D", "6", Moved(Piece("N", "b")))
  @@ On("F", "5", Moved(Piece("P", "b"))) @@ On("A", "2", Moved(Piece("P", "b")))

PortalPosition ==
  Setup(PortalBoard, [K |-> TRUE, Q |-> FALSE, k |-> TRUE, q |-> FALSE])

\* White's knight has come to B3 from D5 through the white network a move ago and may
\* not jump back this turn; White may castle short
NoReturnBoard ==
  On("E", "1", Piece("K", "w")) @@ On("H", "1", Piece("R", "w"))
  @@ On("B", "3", Moved(Piece("N", "w")))
  @@ On("E", "8", Moved(Piece("K", "b"))) @@ On("H", "6", Moved(Piece("P", "b")))

NoReturnPosition ==
  [Setup(NoReturnBoard, [K |-> TRUE, Q |-> FALSE, k |-> FALSE, q |-> FALSE])
     EXCEPT !.personalNoReturn.w = sqToIndex(<<"B", "3">>) :> sqToIndex(<<"D", "5">>)]

\* king and queen against king, one move from checkmate (G1-H1) and from stalemate (G1-G6)
EndgameBoard ==
  On("F", "7", Moved(Piece("K", "w"))) @@ On("G", "1", Moved(Piece("Q", "w")))
  @@ On("H", "8", Moved(Piece("K", "b")))

EndgamePosition ==
  Setup(EndgameBoard, [K |-> FALSE, Q |-> FALSE, k |-> FALSE, q |-> FALSE])

\* White may castle either way; each black piece is a move from giving check on E1,
\* the rook also through the black network (D6 to E4)
CheckBoard ==
  On("E", "1", Piece("K", "w")) @@ On("A", "1", Piece("R", "w"))
  @@ On("H", "1", Piece("R", "w"))
  @@ On("E", "8", Moved(Piece("K", "b"))) @@ On("E", "5", Moved(Piece("N", "b")))
  @@ On("E", "7", Moved(Piece("B", "b"))) @@ On("D", "6", Moved(Piece("R", "b")))
  @@ On("D", "3", Moved(Piece("P", "b")))

CheckPosition ==
  Setup(CheckBoard, [K |-> TRUE, Q |-> TRUE, k |-> FALSE, q |-> FALSE])

\* each king is a step from a portal square on which a piece of the other side, standing
\* on its own network, could change places with it
KingWalkBoard ==
  On("F", "3", Moved(Piece("K", "w"))) @@ On("B", "3", Moved(Piece("N", "w")))
  @@ On("E", "6", Moved(Piece("K", "b"))) @@ On("C", "4", Moved(Piece("B", "b")))

KingWalkPosition ==
  Setup(KingWalkBoard, [K |-> FALSE, Q |-> FALSE, k |-> FALSE, q |-> FALSE])

EnginePositions ==
  {initialState, PortalPosition, NoReturnPosition, EndgamePosition, CheckPosition,
   KingWalkPosition} \cup CastlePositions

InitEngine ==
  /\ rooms = << >>
  /\ now = Epoch
  /\ live = {}
  /\ last = Event("init", "", "", "", NoData)
  /\ out = << >>
  /\ gameEnds = [r \in RoomIds |-> 0]
  /\ timers = {}
  /\ pos \in EnginePositions

EngineStep(o) ==
  /\ pos' = applyResolvedMove(pos, o)
  /\ last' = Event("apply", "", "", "", NoData)
  /\ UNCHANGED <<rooms, now, live, out, gameEnds, timers>>

\* the side to move plays one of its legal outcomes
EnginePlay ==
  /\ Len(pos.history) < EnginePly
  /\ \E fromSq \in Squares : \E o \in Range(LegalOutcomes(pos, fromSq)) : EngineStep(o)

NextEngine == EnginePlay

SpecEngine == InitEngine /\ [][NextEngine]_vars

-----------------------------------------------------------------------------
(* Properties *)

AcceptedFor(ev, r) == ev.op = "makeMove" /\ ev.code = "ok" /\ ev.roomId = r

OriginOf(ev) == sqToIndex(toUpperCase(ev.data.resolved.from))

\* the legal set as the engine defines it: generate from the origin, expand, filter
LegalSet(P, fromSq) ==
  filterLegalByCheck(P, ExpandAll(P, generatePseudoLegalMoves(P, fromSq)))

AppliedFrom(P, legal) == {applyResolvedMove(P, legal[k]) : k \in DOMAIN legal}

\* C1: an accepted makeMove replaces the room's position P by applyResolvedMove(P, o)
\* for some o of the legal set the server computes from P and the submitted origin;
\* no other step changes a position, and a room starts at the initial position, so
\* every position a room holds is reached from the initial one by legal moves.
C1_AcceptedMoveIsLegal ==
  [][\A r \in DOMAIN rooms' :
       \/ r \notin DOMAIN rooms /\ rooms'[r].state = initialState
       \/ /\ r \in DOMAIN rooms
          /\ ~AcceptedFor(last', r)
          /\ rooms'[r].state = rooms[r].state
       \/ /\ r \in DOMAIN rooms
          /\ AcceptedFor(last', r)
          /\ rooms'[r].state
               \in AppliedFrom(rooms[r].state, LegalSet(rooms[r].state, OriginOf(last')))
    ]_vars

\* a reply move accepted although its squares were sent in lower case
C1_Witness ==
  \E r \in DOMAIN rooms :
    /\ AcceptedFor(last, r)
    /\ last.data.resolved.from = <<"e", "7">>
    /\ Len(rooms[r].state.history) = 2
    /\ pieceAt(rooms[r].state, sqToIndex(<<"E", "5">>)) = Moved(Piece("P", "b"))

AllOutcomes(P) == ConcatAll([i \in 1..64 |-> OutcomesFrom(P, i - 1)])

Safe(P, cands) ==
  SelectSeq(cands, LAMBDA m : ~inCheck(applyResolvedMove(P, m), P.turn))

FilterIsExact(P, cands) == filterLegalByCheck(P, cands) = Safe(P, cands)

FreshPosition(r) == last.roomId = r /\ last.code = "ok" /\ last.op \in {"makeMove", "createRoom"}

\* C2: for every position P a room reaches, filterLegalByCheck(P, cands) is exactly the
\* subsequence, in order, of the candidates m with inCheck(applyResolvedMove(P, m), P.turn)
\* false; cands ranges over the resolved moves of each single piece of the side to move
\* and over the list of all of them.
C2_FilterKeepsExactlyTheSafe ==
  \A r \in DOMAIN rooms :
    FreshPosition(r) =>
      /\ FilterIsExact(rooms[r].state, AllOutcomes(rooms[r].state))
      /\ \A i \in 0..63 : FilterIsExact(rooms[r].state, OutcomesFrom(rooms[r].state, i))

\* the side to move is in check and the filter keeps some candidates and drops others
C2_Witness ==
  \E r \in DOMAIN rooms :
    /\ AcceptedFor(last, r)
    /\ inCheck(rooms[r].state, rooms[r].state.turn)
    /\ filterLegalByCheck(rooms[r].state, AllOutcomes(rooms[r].state)) # << >>
    /\ Len(filterLegalByCheck(rooms[r].state, AllOutcomes(rooms[r].state)))
         < Len(AllOutcomes(rooms[r].state))

MoveErrors ==
  {"invalid-payload", "not-found", "not-ready", "game-over", "illegal-move", "server-error"}

\* C3: a makeMove acknowledged with an error leaves every room (position, clocks,
\* lastTick, locked, over) as it was and emits nothing but the acknowledgement.
C3_RejectedMoveChangesNothing ==
  [][(last'.op = "makeMove" /\ last'.code # "ok") =>
       /\ last'.code \in MoveErrors
       /\ rooms' = rooms
       /\ out' = <<Ack(last'.code)>>
    ]_vars

\* an illegal move refused in a running room whose clock had time to charge
C3_Witness ==
  \E r \in DOMAIN rooms :
    /\ last = Rejected("makeMove", r, "illegal-move")
    /\ rooms[r].locked /\ ~rooms[r].over
    /\ rooms[r].lastTick < now
    /\ out = <<Ack("illegal-move")>>

\* C4: once a room is terminal its position never changes again and no moveMade is
\* broadcast for it.  The room becomes terminal at the moment gameEnd is emitted, so in
\* the events of one handler run no moveMade for a room may follow a gameEnd for it.
C4_NoMoveOnceTerminal ==
  \A i \in DOMAIN out : \A j \in DOMAIN out :
    (i < j /\ out[i].ev = "gameEnd") => ~(out[j].ev = "moveMade" /\ out[j].to = out[i].to)

\* C5: gameEnd is emitted at most once in the life of a room.
C5_GameEndAtMostOnce == \A r \in RoomIds : gameEnds[r] <= 1

WellFormed(r) == {MoveData(r, m) : m \in ResolvedPayloads}

\* C6 as stated: whatever joins and disconnects happened since, every well-formed
\* makeMove naming a terminal room is acknowledged with game-over.
C6_TerminalAnswersGameOver ==
  \A r \in DOMAIN rooms :
    rooms[r].over => \A d \in WellFormed(r) : makeMove(rooms, d, now).code = "game-over"

TerminalAnswer(room) == IF room.locked THEN "game-over" ELSE "not-ready"

\* C6, amended: a terminal room stays terminal for as long as it exists, and every
\* well-formed makeMove naming it is refused without any effect: with game-over while
\* the room is locked, with not-ready while a disconnect has left it unlocked.
C6_TerminalRefusesEveryMove ==
  /\ [](\A r \in DOMAIN rooms :
          rooms[r].over =>
            \A d \in WellFormed(r) :
              makeMove(rooms, d, now) = Refuse(rooms, TerminalAnswer(rooms[r])))
  /\ [][\A r \in DOMAIN rooms \cap DOMAIN rooms' : rooms[r].over => rooms'[r].over]_vars

\* a move refused with not-ready by a room that timed out and then lost a player
C6_Witness ==
  \E r \in DOMAIN rooms :
    /\ rooms[r].over /\ ~rooms[r].locked
    /\ last = Rejected("makeMove", r, "not-ready")

Even(n) == n % 2 = 0

WrongOrigin(r, i) ==
  MoveData(r, Move(indexToSq(i), <<"E", "4">>, <<"E", "4">>, "move", NoText))

NotToMove(P, i) == pieceAt(P, i) = Null \/ pieceAt(P, i).color # P.turn

\* C7: White moves first and accepted moves alternate colours: the piece moved by an
\* accepted makeMove belongs to the side whose turn it was, the move flips the turn, and
\* the turn is White's exactly after an even number of moves.  For an origin that is
\* empty or holds a piece of the side not to move the generator returns nothing and a
\* running room answers illegal-move.
C7_SidesAlternate ==
  /\ [](\A r \in DOMAIN rooms :
          /\ rooms[r].state.turn = IF Even(Len(rooms[r].state.history)) THEN "w" ELSE "b"
          /\ \A i \in Squares :
               NotToMove(rooms[r].state, i) =>
                 /\ generatePseudoLegalMoves(rooms[r].state, i) = << >>
                 /\ (rooms[r].locked /\ ~rooms[r].over) =>
                      makeMove(rooms, WrongOrigin(r, i), now).code = "illegal-move")
  /\ [][\A r \in DOMAIN rooms \cap DOMAIN rooms' :
          AcceptedFor(last', r) =>
            /\ pieceAt(rooms[r].state, OriginOf(last')) # Null
            /\ pieceAt(rooms[r].state, OriginOf(last')).color = rooms[r].state.turn
            /\ rooms'[r].state.turn = Opp(rooms[r].state.turn)
            /\ Len(rooms'[r].state.history) = Len(rooms[r].state.history) + 1
       ]_vars

\* Black has just answered White's first move
C7_Witness ==
  \E r \in DOMAIN rooms :
    /\ AcceptedFor(last, r)
    /\ Len(rooms[r].state.history) = 2
    /\ rooms[r].state.turn = "w"
    /\ rooms[r].locked /\ ~rooms[r].over

\* C8: the payload of a move just accepted, sent again to the resulting room, is not
\* accepted; this includes the swap of a portal activation, which the opponent cannot
\* undo by sending the same activation back.
C8_ResubmissionRefused ==
  \A r \in DOMAIN rooms :
    AcceptedFor(last, r) => makeMove(rooms, last.data, now).code # "ok"

\* a portal activation that swapped with an enemy piece has just been accepted, and the
\* swapped piece stands on the origin with its side to move
C8_Witness ==
  \E r \in DOMAIN rooms :
    /\ AcceptedFor(last, r)
    /\ last.data.resolved.kind = "portal-activation"
    /\ ~rooms[r].over
    /\ pieceAt(rooms[r].state, OriginOf(last)) # Null
    /\ pieceAt(rooms[r].state, OriginOf(last)).color = rooms[r].state.turn

Running(r) == r \in DOMAIN rooms /\ rooms[r].locked /\ ~rooms[r].over

FlagFallen(r) ==
  /\ r \in DOMAIN rooms
  /\ rooms[r].over
  /\ ~rooms[r].clockInterval
  /\ rooms[r].clock[rooms[r].state.turn] = 0
  /\ gameEnds[r] = 1
  /\ EvGameEnd(r, "timeout", ColourName(Opp(rooms[r].state.turn))) \in Range(out)

\* C9: in a locked room that is not terminal, whose ticker keeps firing and in which
\* nobody moves, the clock of the side to move reaches 0: the room becomes terminal, the
\* ticker stops and gameEnd timeout is emitted with the other side as winner.
C9_FlagFalls == \A r \in RoomIds : Running(r) ~> FlagFallen(r)

\* the tick on which White's flag fell
C9_Witness ==
  \E r \in RoomIds :
    /\ FlagFallen(r)
    /\ last.op = "tick"
    /\ rooms[r].state.turn = "w"
    /\ rooms[r].clock.b = timeMs(Minutes(10))

TickedClock(room, t) ==
  IF room.locked /\ ~room.over
  THEN [room.clock EXCEPT ![room.state.turn] = Max(0, @ - (t - room.lastTick))]
  ELSE room.clock

\* C10: a tick takes the time elapsed since lastTick off the clock of the side to move,
\* stopping at 0, and leaves the other clock and the position alone (a room that is not
\* locked or is terminal is left untouched); no step raises a clock, and no clock is
\* ever negative.
C10_TickChargesSideToMove ==
  /\ [](\A r \in DOMAIN rooms : rooms[r].clock.w >= 0 /\ rooms[r].clock.b >= 0)
  /\ [][\A r \in DOMAIN rooms \cap DOMAIN rooms' :
          /\ rooms'[r].clock.w <= rooms[r].clock.w
          /\ rooms'[r].clock.b <= rooms[r].clock.b
          /\ (last'.op = "tick" /\ last'.roomId = r) =>
               /\ rooms'[r].clock = TickedClock(rooms[r], now')
               /\ rooms'[r].state = rooms[r].state
       ]_vars

\* a tick has charged part of White's time and left Black's clock full
C10_Witness ==
  \E r \in DOMAIN rooms :
    /\ last.op = "tick" /\ last.roomId = r
    /\ rooms[r].state.turn = "w"
    /\ rooms[r].clock.w > 0 /\ rooms[r].clock.w < rooms[r].clock.b
    /\ rooms[r].lastTick = now
    /\ EvClock(r, rooms[r], "w", now) \in Range(out)

\* C11: an accepted move takes the time elapsed since lastTick off the clock of the
\* mover, the side to move before the move is applied, stopping at 0; it leaves the
\* opponent's clock alone and sets lastTick to the time of the move.
C11_MoverIsCharged ==
  [][\A r \in DOMAIN rooms \cap DOMAIN rooms' :
       AcceptedFor(last', r) =>
         /\ rooms'[r].clock[rooms[r].state.turn]
              = Max(0, rooms[r].clock[rooms[r].state.turn] - (now - rooms[r].lastTick))
         /\ rooms'[r].clock[Opp(rooms[r].state.turn)] = rooms[r].clock[Opp(rooms[r].state.turn)]
         /\ rooms'[r].lastTick = now'
    ]_vars

\* Black has answered after thinking: Black's clock is charged, White's is still full
C11_Witness ==
  \E r \in DOMAIN rooms :
    /\ AcceptedFor(last, r)
    /\ Len(rooms[r].state.history) = 2
    /\ rooms[r].clock.b > 0 /\ rooms[r].clock.b < rooms[r].clock.w
    /\ rooms[r].clock.w = timeMs(Minutes(10))
    /\ rooms[r].lastTick = now

\* the room made by the createRoom that was handled last
JustCreated == last.op = "createRoom" /\ last.roomId \in DOMAIN rooms

BothClocks(ms) == rooms[last.roomId].clock = [w |-> ms, b |-> ms]

\* C12 as stated: after createRoom with an integer timeMinutes both clocks are
\* max(1, timeMinutes) * 60000 ms, also for 0 and negative values, and 600000 ms
\* when timeMinutes is absent.
C12_ClocksAreMaxOneMinute ==
  JustCreated /\ last.payload.tenths % 10 = 0 =>
    BothClocks(IF last.payload.has THEN Max(1, last.payload.tenths \div 10) * 60000 ELSE 600000)

\* C12: after createRoom with a positive integer timeMinutes both clocks are
\* timeMinutes * 60000 ms; with timeMinutes 0, negative or absent both are 600000 ms.
C12_ClocksFromValidatedMinutes ==
  JustCreated /\ last.payload.tenths % 10 = 0 =>
    BothClocks(IF last.payload.has /\ last.payload.tenths > 0
               THEN (last.payload.tenths \div 10) * 60000 ELSE 600000)

C12_Witness ==
  /\ JustCreated /\ last.payload = Minutes(-10) /\ BothClocks(600000)
  /\ rooms[last.roomId].sockets = <<last.sock>>

\* the last event was an accepted joinRoom that left its room with two sockets
JoinedSecond(r) ==
  /\ last.op = "joinRoom" /\ last.code = "ok" /\ last.roomId = r
  /\ Len(rooms[r].sockets) = 2

GameStarts == SelectSeq(out, LAMBDA e : e.ev = "gameStart")

\* C13: a joinRoom that brings a room to two participants locks the room, starts the
\* ticker and sends exactly one gameStart with the room's position to each of the two
\* sockets in the room: colour w to the host, colour b to the other.
C13_BothPlayersGetGameStart ==
  \A r \in DOMAIN rooms :
    JoinedSecond(r) =>
      /\ rooms[r].locked /\ rooms[r].clockInterval /\ r \in timers
      /\ Len(GameStarts) = 2
      /\ {GameStarts[1].to, GameStarts[2].to} = Range(rooms[r].sockets)
      /\ \A i \in 1..2 :
           /\ GameStarts[i].roomId = r
           /\ GameStarts[i].state = rooms[r].state
           /\ GameStarts[i].color = (IF GameStarts[i].to = rooms[r].host THEN "w" ELSE "b")
      /\ rooms[r].host \in Range(rooms[r].sockets)

JoinRefused(code) == last'.op = "joinRoom" /\ last'.code = code

\* C14: every room has one or two sockets and is locked exactly when it has two; a
\* joinRoom with no room id is answered missing-room-id, with an unknown id not-found,
\* on a locked room room-locked, and a rejected joinRoom leaves the rooms table (socket
\* sets, locked flags, positions, clocks) unchanged and emits only its acknowledgement.
C14_RoomOccupancy ==
  /\ [](\A r \in DOMAIN rooms :
          /\ Len(rooms[r].sockets) \in {1, 2}
          /\ rooms[r].locked <=> Len(rooms[r].sockets) = 2)
  /\ [][last'.op = "joinRoom" =>
          /\ (last'.roomId = "") <=> JoinRefused("missing-room-id")
          /\ (last'.roomId # "" /\ last'.roomId \notin DOMAIN rooms) <=> JoinRefused("not-found")
          /\ (last'.roomId \in DOMAIN rooms /\ rooms[last'.roomId].locked)
               <=> JoinRefused("room-locked")
          /\ last'.code # "ok" => rooms' = rooms /\ out' = <<Ack(last'.code)>>
       ]_vars

\* a socket was turned away from a full room after a game had been played in it
C14_Witness ==
  /\ last.op = "joinRoom" /\ last.code = "room-locked"
  /\ Len(rooms[last.roomId].sockets) = 2 /\ rooms[last.roomId].locked
  /\ rooms[last.roomId].state.history # << >>

\* C15: for every accepted move the handler emits first the acknowledgement {ok:true},
\* then the moveMade broadcast, then the clock snapshot(s); no clock snapshot of the
\* move comes before its moveMade.
C15_AckMoveMadeClockInOrder ==
  \A r \in DOMAIN rooms :
    AcceptedFor(last, r) =>
      /\ out[1] = Ack("ok")
      /\ \E i \in 2..Len(out) :
           /\ out[i].ev = "moveMade"
           /\ \A j \in 1..Len(out) : out[j].ev = "clock" => j > i

\* what the disconnect of sock does to room r
Departed(r, sock) ==
  IF sock \notin Range(rooms[r].sockets)
  THEN r \in DOMAIN rooms' /\ rooms'[r] = rooms[r]
  ELSE IF Len(rooms[r].sockets) = 1
  THEN r \notin DOMAIN rooms' /\ r \notin timers'
  ELSE /\ r \in DOMAIN rooms'
       /\ rooms'[r].sockets = SetDelete(rooms[r].sockets, sock)
       /\ ~rooms'[r].locked
       /\ \A s \in SocketIds : joinRoom(rooms', s, r, now').code = "ok"

\* C16: every room in the table has at least one socket; a disconnect removes a room
\* whose last socket left and cancels its ticker, so that only rooms in the table are
\* ticked, and unlocks a room that keeps a socket, so that a joinRoom to it is accepted.
C16_DisconnectCleansUp ==
  /\ [](\A r \in DOMAIN rooms : rooms[r].sockets # << >>)
  /\ [](timers = {r \in DOMAIN rooms : rooms[r].clockInterval})
  /\ [][last'.op = "tick" => last'.roomId \in DOMAIN rooms]_vars
  /\ [][last'.op = "disconnect" => \A r \in DOMAIN rooms : Departed(r, last'.sock)]_vars

\* one player of a game in progress has left: the room is open again, its ticker still set
C16_Witness ==
  /\ last.op = "disconnect"
  /\ \E r \in DOMAIN rooms :
       /\ Len(rooms[r].sockets) = 1 /\ ~rooms[r].locked
       /\ last.sock \notin Range(rooms[r].sockets)
       /\ rooms[r].state.history # << >> /\ r \in timers

\* the base moves the generator gives for the piece on sq
Generated(sq) == Range(generatePseudoLegalMoves(pos, sq))

LastMove == pos.history[Len(pos.history)]

\* the conditions of castling for the king on sq towards side, read off the position
MayCastle(sq, side, color, rank) ==
  LET rookSq == sqToIndex(<<IF side = "K" THEN "H" ELSE "A", rank>>)
      between == IF side = "K" THEN {<<"F", rank>>, <<"G", rank>>}
                 ELSE {<<"B", rank>>, <<"C", rank>>, <<"D", rank>>}
      kingPath == IF side = "K" THEN {<<"F", rank>>, <<"G", rank>>}
                  ELSE {<<"D", rank>>, <<"C", rank>>}
  IN /\ pos.board[sq] = Piece("K", color)
     /\ pos.board[rookSq] = Piece("R", color)
     /\ pos.castleRights[IF color = "w" THEN side ELSE IF side = "K" THEN "k" ELSE "q"]
     /\ \A b \in between : pos.board[sqToIndex(b)] = Null
     /\ ~isSquareAttacked(pos, sq, Opp(color))
     /\ \A k \in kingPath : ~isSquareAttacked(pos, sqToIndex(k), Opp(color))

\* C17: the generator emits a castle move for a king only if king and matching rook
\* have not moved, the matching right is set, the squares between them are empty (F, G
\* kingside; B, C, D queenside) and none of the king's origin, pass-through and
\* destination squares is attacked by the opponent according to isSquareAttacked.
C17_CastleOnlyWhenAllowed ==
  \A sq \in Squares : \A bm \in Generated(sq) :
    bm.kind = "castle" =>
      /\ bm.castle \in {"K", "Q"}
      /\ bm.to = sqToIndex(<<IF bm.castle = "K" THEN "G" ELSE "C",
                             IF pos.board[sq].color = "w" THEN "1" ELSE "8">>)
      /\ MayCastle(sq, bm.castle, pos.board[sq].color,
                   IF pos.board[sq].color = "w" THEN "1" ELSE "8")

\* White has castled long and Black, with the D file now covered by the rook, may still
\* castle short but not long
C17_Witness ==
  /\ Len(pos.history) = 1 /\ LastMove.kind = "castle" /\ LastMove.castle = "Q"
  /\ \E bm \in Generated(sqToIndex(<<"E", "8">>)) : bm.kind = "castle" /\ bm.castle = "K"
  /\ ~\E bm \in Generated(sqToIndex(<<"E", "8">>)) : bm.kind = "castle" /\ bm.castle = "Q"
  /\ pos.castleRights.q

\* the other squares of the network that sq belongs to, in declaration order
OtherPortals(sq) ==
  IF sq \in WhiteSet THEN SelectSeq(PortalsWhite, LAMBDA d : d # sq)
  ELSE IF sq \in BlackSet THEN SelectSeq(PortalsBlack, LAMBDA d : d # sq)
  ELSE <<neutralMate(sq)>>

\* STAY on the portal square, then one teleport per other square of its network that
\* does not hold a piece of the mover's colour, as (toFinal, choice, swapped)
StayThenTeleports(bm, color) ==
  LET open == SelectSeq(OtherPortals(bm.to), LAMBDA d : pos.board[d].color # color)
  IN <<<<bm.to, STAY, FALSE>>>>
     \o [i \in 1..Len(open) |-> <<open[i], indexToSq(open[i]), pos.board[open[i]] # Null>>]

\* the outcomes of bm are all portal outcomes entered at bm.to and are, in order, as listed
ExpandsTo(bm, listed) ==
  LET outs == expandWithPortalOutcomes(pos, bm)
  IN /\ Len(outs) = Len(listed)
     /\ \A i \in 1..Len(outs) :
          /\ outs[i].viaPortal.present /\ outs[i].viaPortal.entry = bm.to
          /\ <<outs[i].toFinal, outs[i].viaPortal.choice, outs[i].viaPortal.swapped>> = listed[i]
          /\ <<outs[i].from, outs[i].to, outs[i].kind>> = <<bm.from, bm.to, bm.kind>>

\* non-capture moves of kind move that end on a portal square
PortalLandings(sq) ==
  {bm \in Generated(sq) : bm.kind = "move" /\ bm.to \in Range(PortalSquares)}

\* C18 as stated: every non-capture move of kind move onto a portal square expands to
\* the STAY outcome at index 0 followed by the teleports in network-declaration order
\* (empty destination: swapped false; enemy: swapped true; own-occupied: omitted).
C18_StayFirstOnEveryPortal ==
  \A sq \in Squares : \A bm \in PortalLandings(sq) :
    ExpandsTo(bm, StayThenTeleports(bm, pos.board[sq].color))

\* C18: a non-capture move of kind move onto a square of the mover's own exclusive
\* network or of the neutral pair expands to the STAY outcome at index 0 followed by
\* the teleports in declaration order (empty: swapped false; enemy: swapped true;
\* own-occupied: omitted); onto a square of the other colour's exclusive network it
\* expands to the single outcome toFinal = to without viaPortal.
C18_StayFirstOnUsablePortal ==
  \A sq \in Squares : \A bm \in PortalLandings(sq) :
    IF bm.to \in NeutralSet \cup (IF pos.board[sq].color = "w" THEN WhiteSet ELSE BlackSet)
    THEN ExpandsTo(bm, StayThenTeleports(bm, pos.board[sq].color))
    ELSE expandWithPortalOutcomes(pos, bm) = <<Resolve(bm, bm.to, NoPortal)>>

\* a piece has landed on an own portal and changed places with an enemy piece on
\* another, and the side now to move can step onto a portal square of either colour
C18_Witness ==
  /\ pos.history # << >>
  /\ LastMove.kind = "move" /\ LastMove.viaPortal.network = "exclusive"
  /\ LastMove.viaPortal.swapped
  /\ \E sq \in Squares : \E bm \in PortalLandings(sq) : bm.to \in WhiteSet
  /\ \E sq \in Squares : \E bm \in PortalLandings(sq) : bm.to \in BlackSet

\* destinations tried for a promotion: the two final ranks and every portal square
PromotionTargets == {i \in Squares : RankOf(i) \in {0, 7}} \cup Range(PortalSquares)

PromotionBase(fromSq, to, promo) == [Base(fromSq, to, "promotion") EXCEPT !.promo = promo]

\* bm expands to one outcome: toFinal = to, promo kept, no viaPortal
ExpandsToItself(bm) ==
  LET outs == expandWithPortalOutcomes(pos, bm)
  IN /\ Len(outs) = 1
     /\ outs[1].toFinal = bm.to
     /\ outs[1].promo = bm.promo
     /\ ~outs[1].viaPortal.present
     /\ <<outs[1].from, outs[1].to, outs[1].kind>> = <<bm.from, bm.to, "promotion">>

\* C19: every BaseMove of kind promotion expands to exactly one ResolvedMove with
\* toFinal = to, the declared promo piece and no viaPortal, in every position and
\* whether or not the destination is a portal square.
C19_PromotionDoesNotBranch ==
  \A sq \in Squares :
    pos.board[sq].type = "P" =>
      /\ \A bm \in Generated(sq) :
           bm.kind = "promotion" => bm.promo \in Range(PromoTypes) /\ ExpandsToItself(bm)
      /\ \A to \in PromotionTargets, promo \in Range(PromoTypes) :
           ExpandsToItself(PromotionBase(sq, to, promo))

\* a pawn has just been promoted to a knight and the side to move has a promotion too
C19_Witness ==
  /\ pos.history # << >>
  /\ LastMove.kind = "promotion" /\ LastMove.promo = "N"
  /\ pos.board[LastMove.toFinal].type = "N"
  /\ \E sq \in Squares : \E bm \in Generated(sq) : bm.kind = "promotion"

\* a swap through the neutral network
NeutralSwap(m) == m.viaPortal.present /\ m.viaPortal.swapped /\ m.viaPortal.network = "neutral"

JustSwapped == pos.history # << >> /\ NeutralSwap(LastMove)

\* C20: after a swap through the neutral network by colour C against V, the cooldown
\* flag of V is set in the resulting position and the generator gives V no
\* portal-activation from a neutral portal square there; after V's next move, of
\* whatever kind, the cooldown flag of V is clear.
C20_CooldownSetThenConsumed ==
  /\ [](JustSwapped =>
          /\ pos.neutralSwapCooldown[pos.turn]
          /\ LastMove.from # LastMove.toFinal
          /\ pos.board[LastMove.toFinal].color = Opp(pos.turn)
          /\ \A sq \in NeutralSet : \A bm \in Generated(sq) : bm.kind # "portal-activation")
  /\ [][JustSwapped /\ pos' # pos => ~pos'.neutralSwapCooldown[pos.turn]]_vars

\* the victim, its bishop now standing on a neutral portal square, has castled
C20_Witness ==
  /\ Len(pos.history) = 2
  /\ NeutralSwap(pos.history[1])
  /\ LastMove.kind = "castle"
  /\ pos.board[pos.history[1].viaPortal.entry].color = "b"
  /\ pos.neutralSwapCooldown = [w |-> FALSE, b |-> FALSE]

\* a teleport through the neutral network: a neutral outcome other than STAY
NeutralTeleport(o) ==
  o.viaPortal.present /\ o.viaPortal.network = "neutral" /\ o.viaPortal.choice # STAY

\* C21: on the turn that follows a neutral swap against V, V has no check-legal
\* outcome that teleports through the neutral network, neither as a portal-activation
\* nor by first moving a piece onto a neutral portal square.
C21_VictimCannotTeleportNeutral ==
  JustSwapped =>
    \A sq \in Squares : \A o \in Range(LegalOutcomes(pos, sq)) : ~NeutralTeleport(o)

\* the victim's piece stands on a neutral portal square, the victim can move it and can
\* also capture the piece that swapped with it
C21_Witness ==
  /\ JustSwapped
  /\ pos.neutralSwapCooldown[pos.turn]
  /\ LegalOutcomes(pos, LastMove.viaPortal.entry) # << >>
  /\ \E sq \in Squares : \E o \in Range(LegalOutcomes(pos, sq)) :
       o.kind = "capture" /\ o.to = LastMove.toFinal

\* a teleport through the mover's exclusive network
ExclusiveTeleport(m) ==
  m.viaPortal.present /\ m.viaPortal.network = "exclusive" /\ m.viaPortal.choice # STAY

\* the move before the last one: the latest move of the side now to move
OwnLastMove == pos.history[Len(pos.history) - 1]

HasActivation(fromSq, to) ==
  \E bm \in Generated(fromSq) : bm.kind = "portal-activation" /\ bm.to = to

\* the side to move is barred from jumping back from landing to entry, and only from that
NoReturnInForce(landing, entry) ==
  /\ landing \in DOMAIN pos.personalNoReturn[pos.turn]
  /\ pos.personalNoReturn[pos.turn][landing] = entry
  /\ ~HasActivation(landing, entry)
  /\ pos.board[landing].color = pos.turn =>
       \A d \in Range(NetworkOf(pos.turn)) \ {landing, entry} :
         pos.board[d].color # pos.turn => HasActivation(landing, d)

\* C22: if colour C teleports through its exclusive network from portal square O to L,
\* then at the start of C's next turn, after one opponent move of any kind,
\* PersonalNoReturn[C] maps L to O and the generator gives the piece on L no
\* portal-activation to O, while the activations from L to the other squares remain.
C22_NoReturnAfterOneOpponentMove ==
  Len(pos.history) >= 2 /\ ExclusiveTeleport(OwnLastMove) =>
    NoReturnInForce(OwnLastMove.toFinal, OwnLastMove.viaPortal.entry)

\* C23: a personal no-return restriction lasts one turn of its owner: after the owner's
\* move on the restricted turn, of whatever kind, castling included, its
\* PersonalNoReturn map is empty, and at its following turn the map holds only the
\* entry created by that latest move.
C23_NoReturnLastsOneTurn ==
  /\ pos.history # << >> => pos.personalNoReturn[Opp(pos.turn)] = EmptyMap
  /\ Len(pos.history) >= 2 =>
       \A l \in DOMAIN pos.personalNoReturn[pos.turn] :
         /\ ExclusiveTeleport(OwnLastMove)
         /\ l = OwnLastMove.toFinal
         /\ pos.personalNoReturn[pos.turn][l] = OwnLastMove.viaPortal.entry

\* the side to move has no check-legal outcome for any of its pieces
NoLegalOutcome(P) == \A sq \in Squares : LegalOutcomes(P, sq) = << >>

-----------------------------------------------------------------------------
(* C25 *)

\* the exclusive network of the colour other than color
ForeignSet(color) == IF color = "w" THEN BlackSet ELSE WhiteSet

\* the square named by a viaPortal choice lies in set (STAY names no square)
ChoiceIn(choice, set) == choice # STAY /\ sqToIndex(choice) \in set

\* C25: exclusive networks are usable only by their owner: for every BaseMove the
\* generator produces for a piece of colour c, no resolved outcome has a viaPortal whose
\* entry or choice lies in the other colour's exclusive network, and a move landing on
\* a square of the other colour's exclusive network resolves to exactly one outcome
\* with toFinal = to and no viaPortal.
C25_ExclusiveNetworkOwnerOnly ==
  \A sq \in Squares : \A bm \in Generated(sq) :
    LET foreign == ForeignSet(pos.board[sq].color)
        outs == expandWithPortalOutcomes(pos, bm)
    IN /\ \A o \in Range(outs) :
            o.viaPortal.present =>
              o.viaPortal.entry \notin foreign /\ ~ChoiceIn(o.viaPortal.choice, foreign)
       /\ bm.to \in foreign => outs = <<Resolve(bm, bm.to, NoPortal)>>

\* after a move, the side to move can step onto a square of the other colour's
\* network and can capture on one
C25_Witness ==
  /\ pos.history # << >>
  /\ \E sq \in Squares : \E bm \in Generated(sq) :
       /\ pos.board[sq].color = pos.turn /\ bm.kind = "move"
       /\ bm.to \in ForeignSet(pos.turn)
  /\ \E sq \in Squares : \E bm \in Generated(sq) :
       /\ pos.board[sq].color = pos.turn /\ bm.kind = "capture"
       /\ bm.to \in ForeignSet(pos.turn)

-----------------------------------------------------------------------------
(* C26 *)

\* C26: the generator emits no castle move for a side whose king is in check according
\* to inCheck, the generator-based check definition used by the legality filter.
C26_NoCastleOutOfCheck ==
  \A sq \in Squares : \A bm \in Generated(sq) :
    bm.kind = "castle" => ~inCheck(pos, pos.board[sq].color)

\* White, still holding the short castling right with F1 and G1 empty and unattacked
\* and the rook at home, has just been put in check
C26_Witness ==
  /\ pos.history # << >> /\ pos.turn = "w"
  /\ inCheck(pos, "w")
  /\ pos.castleRights.K
  /\ pos.board[sqToIndex(<<"E", "1">>)] = Piece("K", "w")
  /\ pos.board[sqToIndex(<<"H", "1">>)] = Piece("R", "w")
  /\ \A f \in {"F", "G"} :
       /\ pos.board[sqToIndex(<<f, "1">>)] = Null
       /\ ~isSquareAttacked(pos, sqToIndex(<<f, "1">>), "b")

-----------------------------------------------------------------------------
(* C27 *)

RightsOf(color) == IF color = "w" THEN {"K", "Q"} ELSE {"k", "q"}

\* the king and the rook that the castle right r speaks of stand unmoved at home
AtHomeUnmoved(r) ==
  LET color == IF r \in {"K", "Q"} THEN "w" ELSE "b"
      rank == IF color = "w" THEN "1" ELSE "8"
      corner == IF r \in {"K", "k"} THEN "H" ELSE "A"
  IN /\ pos.board[sqToIndex(<<"E", rank>>)] = Piece("K", color)
     /\ pos.board[sqToIndex(<<corner, rank>>)] = Piece("R", color)

CastlesBy(color) ==
  Cardinality({i \in 1..Len(pos.history) :
                 pos.history[i].kind = "castle" /\ (i % 2 = 1) = (color = "w")})

\* a right that is false stays false, and the side that castles loses both rights
RightsOnlyFall ==
  /\ \A r \in DOMAIN pos.castleRights : pos'.castleRights[r] => pos.castleRights[r]
  /\ pos'.history[Len(pos'.history)].kind = "castle" =>
       \A r \in RightsOf(pos.turn) : ~pos'.castleRights[r]

\* C27: a castle right is true only if the king of that colour stands on its home
\* square with hasMoved = false and a rook of that colour stands on the matching corner
\* with hasMoved = false; a right once false never becomes true again, and each side
\* castles at most once.
C27_RightsNeedUnmovedKingAndRook ==
  /\ [](\A r \in DOMAIN pos.castleRights : pos.castleRights[r] => AtHomeUnmoved(r))
  /\ [](\A color \in {"w", "b"} : CastlesBy(color) <= 1)
  /\ [][RightsOnlyFall]_vars

\* a pawn has just promoted by capturing the rook in the corner, taking away that right
\* of a side that still has its king and other rook at home with the other right
C27_Witness ==
  /\ pos.history # << >>
  /\ LastMove.kind = "promotion"
  /\ LastMove.toFinal = sqToIndex(<<"H", "8">>)
  /\ ~pos.castleRights.k /\ pos.castleRights.q

-----------------------------------------------------------------------------
(* C28 *)

\* among the events of the handler run, a moveMade for room r and, after it, the gameEnd
MoveMadeThenEnd(r, result, winner) ==
  \E i \in DOMAIN out : \E j \in DOMAIN out :
    /\ i < j
    /\ out[i].ev = "moveMade" /\ out[i].to = r
    /\ out[j] = EvGameEnd(r, result, winner)

\* C28: after an accepted move whose resulting position leaves the side to move without
\* any check-legal outcome, the room is terminal, its ticker is stopped and gameEnd is
\* broadcast after that move's moveMade (checkmate with winner the mover's colour when
\* the side to move is in check, otherwise stalemate without winner); after any other
\* accepted move the room stays non-terminal.
C28_TerminalExactlyOnMateOrStalemate ==
  \A r \in DOMAIN rooms :
    AcceptedFor(last, r) =>
      LET P == rooms[r].state
          none == NoLegalOutcome(P)
          check == inCheck(P, P.turn)
      IN IF none
         THEN /\ rooms[r].over
              /\ ~rooms[r].clockInterval /\ r \notin timers
              /\ MoveMadeThenEnd(r, IF check THEN "checkmate" ELSE "stalemate",
                                 IF check THEN ColourName(Opp(P.turn)) ELSE "-")
         ELSE ~rooms[r].over

-----------------------------------------------------------------------------
(* C29 *)

PieceCount(P) == Cardinality({i \in Squares : P.board[i] # Null})

\* the outcome applied by the step
Applied == pos'.history[Len(pos'.history)]

\* the step took a piece off the board: a capture, or a promotion onto an enemy piece
Captures(o) == o.kind = "capture" \/ (o.kind = "promotion" /\ pos.board[o.toFinal] # Null)

\* a swapped outcome leaves the mover on toFinal, the enemy piece that stood there on
\* the entry, and the origin empty unless it is the entry
SwapKeepsBoth(o) ==
  /\ pos.board[o.toFinal].color = Opp(pos.turn)
  /\ pos'.board[o.toFinal] = Moved(pos.board[o.from])
  /\ pos'.board[o.viaPortal.entry] = pos.board[o.toFinal]
  /\ o.from # o.viaPortal.entry => pos'.board[o.from] = Null
  /\ \A i \in Squares \ {o.from, o.toFinal, o.viaPortal.entry} : pos'.board[i] = pos.board[i]

\* C29: applying an outcome with viaPortal.swapped = true removes no piece: the mover
\* ends on toFinal, the enemy piece that stood on toFinal ends on viaPortal.entry, and
\* the origin square is empty unless it is the entry; the number of pieces on the board
\* drops by exactly one on each capture or capturing promotion and is unchanged by
\* every other move.
C29_SwapRemovesNoPiece ==
  [][/\ Applied.viaPortal.swapped => SwapKeepsBoth(Applied)
     /\ PieceCount(pos') = PieceCount(pos) - (IF Captures(Applied) THEN 1 ELSE 0)
    ]_vars

\* a piece stepped onto a portal and changed places with an enemy piece, which has then
\* been answered by a capture: one piece fewer than at the start
C29_Witness ==
  /\ Len(pos.history) = 2
  /\ pos.history[1].viaPortal.swapped
  /\ pos.history[1].from # pos.history[1].viaPortal.entry
  /\ LastMove.kind = "capture"
  /\ PieceCount(pos) = PieceCount(PortalPosition) - 1

-----------------------------------------------------------------------------
(* C30 *)

\* the mover's pending no-return map holds the entry landing -> origin
PendingHolds(P, color, landing, origin) ==
  /\ landing \in DOMAIN P.pendingPersonalNoReturn[color]
  /\ P.pendingPersonalNoReturn[color][landing] = origin

\* C30: when a piece of colour C moves onto an exclusive portal P and teleports to L in
\* the same move, also from a square A that is no portal, the applier records
\* PendingPersonalNoReturn[C][L] = P (the portal entry, not A); an outcome with choice
\* STAY or through the neutral network records no pending entry.
C30_PendingRecordsPortalEntry ==
  [][/\ ExclusiveTeleport(Applied) =>
          PendingHolds(pos', pos.turn, Applied.toFinal, Applied.viaPortal.entry)
     /\ (Applied.viaPortal.present /\ ~ExclusiveTeleport(Applied)) =>
          /\ Applied.viaPortal.choice = STAY \/ Applied.viaPortal.network = "neutral"
          /\ pos'.pendingPersonalNoReturn[pos.turn] = pos.pendingPersonalNoReturn[pos.turn]
    ]_vars

\* a piece has just come from a square that is no portal onto a portal of its own
\* network and on to another, and the entry, not the square it set out from, is pending
C30_Witness ==
  /\ pos.history # << >>
  /\ ExclusiveTeleport(LastMove)
  /\ LastMove.from \notin Range(PortalSquares)
  /\ LastMove.from # LastMove.viaPortal.entry
  /\ PendingHolds(pos, Opp(pos.turn), LastMove.toFinal, LastMove.viaPortal.entry)

-----------------------------------------------------------------------------
(* C31 *)

\* C31: applyResolvedMove sets halfmoveClock to 0 for every pawn move and every
\* capture, and to the previous value plus one for every other move (including
\* castling and portal moves of non-pawns).
C31_HalfmoveClockCounts ==
  [][pos'.halfmoveClock =
       IF pos.board[Applied.from].type = "P" \/ Captures(Applied)
       THEN 0 ELSE pos.halfmoveClock + 1
    ]_vars

-----------------------------------------------------------------------------
(* C32 *)

\* labels sqToIndex rejects: a file and a rank off the board, one character, none
BadLabels == {<<"Z", "9">>, <<"I", "1">>, <<"A", "0">>, <<"E">>, << >>}

\* destinations tried: a square of each network and two plain squares
ProbeTargets == {<<"E", "4">>, <<"D", "5">>, <<"B", "5">>, <<"A", "3">>, <<"H", "8">>}

BaseKinds == {"move", "capture", "portal-activation", "promotion"}

\* origins that hold no piece, or a piece of the side not to move
IdleOrigins == {indexToSq(sq) : sq \in {i \in Squares : pos.board[i].color # pos.turn}}

\* C32: the generator and the expander never raise an error on bad input: for a
\* malformed square label, an empty origin square or an origin holding a piece of the
\* side not to move, each returns the empty sequence.
C32_BadInputGivesEmpty ==
  \A from \in BadLabels \cup IdleOrigins :
    /\ generateFromLabel(pos, from) = Returned(<< >>)
    /\ \A kind \in BaseKinds, to \in ProbeTargets :
         expandFromLabels(pos, kind, from, to) = Returned(<< >>)

-----------------------------------------------------------------------------
(* C33 *)

\* C33: a room created with timeMinutes = 0.1 in which both players are present and no
\* move is made is terminal by timeout once 6 seconds of wall-clock time have elapsed,
\* with gameEnd {result: timeout, winner: black} since it is White's turn.  (Room and
\* second player arrive at time Epoch, and the ticker then fires every 250 ms.)
C33_SixSecondFlag ==
  \A r \in DOMAIN rooms :
    (rooms[r].locked /\ now - Epoch >= 6000) =>
      /\ rooms[r].over
      /\ rooms[r].clock.w = 0
      /\ gameEnds[r] = 1

-----------------------------------------------------------------------------
(* C34 *)

KingsOf(P, color) == {i \in Squares : P.board[i] = Moved(Piece("K", color))
                                      \/ P.board[i] = Piece("K", color)}

\* the outcome applied by the step neither lands on a king nor moves the king of the
\* side that did not move
KingLeftAlone ==
  /\ pos.board[Applied.toFinal].type # "K"
  /\ pos.board[Applied.to].type # "K"
  /\ KingsOf(pos', pos'.turn) = KingsOf(pos, pos'.turn)

\* C34: in every position reached by check-legal moves each colour has exactly one king
\* on the board: no legal outcome captures a king or relocates one through a portal swap.
C34_OneKingEach ==
  /\ [](\A color \in {"w", "b"} : Cardinality(KingsOf(pos, color)) = 1)
  /\ [][KingLeftAlone]_vars

\* the king of the side to move could step onto a portal square where nothing attacks
\* it but where a piece of the other side could change places with it through its
\* network, and that step is not among the legal outcomes
C34_Witness ==
  /\ pos.history # << >>
  /\ \E o \in Range(OutcomesFrom(pos, KingSquare(pos, pos.turn))) :
       /\ o.toFinal \in Range(PortalSquares)
       /\ \A l \in Range(LegalOutcomes(pos, o.from)) : l.toFinal # o.toFinal
       /\ ~isSquareAttacked(applyResolvedMove(pos, o), o.toFinal, Opp(pos.turn))
       /\ \E i \in Squares : \E t \in Range(OutcomesFrom(applyResolvedMove(pos, o), i)) :
            t.toFinal = o.toFinal /\ t.viaPortal.swapped

-----------------------------------------------------------------------------
(* C35 *)

\* the tuple the server compares: landing square, kind, promo, portal choice
MatchTuple(o) ==
  <<o.toFinal, o.kind, o.promo, IF o.viaPortal.present THEN o.viaPortal.choice ELSE NoText>>

\* C35: no two distinct check-legal resolved outcomes from one origin agree on the
\* match tuple (toFinal, kind, promo, viaPortal.choice), so that the first match the
\* server applies is the outcome submitted, with the same entry square and result.
C35_MatchTupleIdentifiesOutcome ==
  \A sq \in Squares :
    LET legal == LegalOutcomes(pos, sq)
    IN \A i \in DOMAIN legal : \A j \in DOMAIN legal :
         MatchTuple(legal[i]) = MatchTuple(legal[j]) =>
           /\ legal[i] = legal[j]
           /\ applyResolvedMove(pos, legal[i]) = applyResolvedMove(pos, legal[j])

-----------------------------------------------------------------------------
(* C36 *)

\* the last thing that happened is the joinRoom that locked room r
JustLocked(r) ==
  /\ last.op = "joinRoom" /\ last.code = "ok" /\ last.roomId = r
  /\ r \in DOMAIN rooms /\ rooms[r].locked

\* C36: wall-clock time that passes while a room is not locked is never subtracted from
\* either clock: once the room is locked again, the next tick charges the side to move
\* only for the time elapsed since the room was locked.
C36_UnlockedTimeIsFree ==
  [][\A r \in RoomIds :
       (JustLocked(r) /\ last'.op = "tick" /\ last'.roomId = r) =>
         \A c \in {"w", "b"} : rooms'[r].clock[c] >= rooms[r].clock[c] - (now' - now)
    ]_vars

-----------------------------------------------------------------------------
(* C37 *)

\* the socket that gameStart told it plays colour c: the host is White, the first other
\* member of the room is Black
SeatOf(room, c) ==
  IF c = "w" THEN room.host
  ELSE LET others == SelectSeq(room.sockets, LAMBDA id : id # room.host)
       IN IF others # << >> THEN others[1] ELSE ""

\* C37: a makeMove is accepted only when it is sent by a socket that is a member of the
\* room and was assigned the colour of the side to move at gameStart; a makeMove sent by
\* the opponent's socket or by a socket outside the room never changes the position.
C37_OnlySideToMoveMayMove ==
  \A r \in DOMAIN rooms :
    AcceptedFor(last, r) =>
      /\ last.sock \in Range(rooms[r].sockets)
      /\ last.sock = SeatOf(rooms[r], Opp(rooms[r].state.turn))

-----------------------------------------------------------------------------
(* C38 *)

\* C38: createRoom never replaces or alters a room already present in the rooms table:
\* for every value the id generator can return, the id acknowledged to the creator was
\* not in use before the call and all existing rooms keep their sockets, position,
\* clocks, flags and ticker.
C38_CreateRoomKeepsRooms ==
  [][last'.op = "createRoom" =>
       /\ last'.roomId \notin DOMAIN rooms
       /\ \A r \in DOMAIN rooms : r \in DOMAIN rooms' /\ rooms'[r] = rooms[r]
    ]_vars

-----------------------------------------------------------------------------
BackRanks == {0, 7}

NoBackRankPawn(P) == \A i \in Squares : P.board[i] # Null /\ P.board[i].type = "P" => RankOf(i) \notin BackRanks

\* C39: in every position reached by applying outcomes of generator and expander
\* no pawn stands on rank 1 or rank 8, and that is so again after any outcome the
\* generator and the expander produce there, legal or not; no portal square, where
\* a jump ends or a swapped piece is put, lies on those ranks
C39_NoPawnOnBackRank ==
  /\ NoBackRankPawn(pos)
  /\ \A o \in Range(AllOutcomes(pos)) : NoBackRankPawn(applyResolvedMove(pos, o))
  /\ \A sq \in Range(PortalSquares) : RankOf(sq) \notin BackRanks

\* a pawn has just promoted: the piece of the promoted type stands on the final rank
C39_Witness ==
  /\ pos.history # << >>
  /\ LastMove.kind = "promotion"
  /\ RankOf(LastMove.toFinal) \in BackRanks
  /\ pos.board[LastMove.toFinal].type = LastMove.promo
  /\ NoBackRankPawn(pos)

-----------------------------------------------------------------------------
\* the tests of isSquareAttacked that come before the portal scan
GeometricAttack(state, target, attackerColor) ==
  \/ PawnAttacks(state, FileOf(target), RankOf(target), attackerColor)
  \/ StepAttacks(state, KnightT[target], attackerColor, "N")
  \/ StepAttacks(state, KingT[target], attackerColor, "K")
  \/ \E d \in Range(RookDirs) : RayHit(state, target, d, attackerColor, {"R", "Q"})
  \/ \E d \in Range(BishopDirs) : RayHit(state, target, d, attackerColor, {"B", "Q"})

OffPortal == Squares \ Range(PortalSquares)

\* the squares a castling king stands on, crosses or lands on
CastlingSquares == {sqToIndex(<<f, r>>) : f \in {"C", "D", "E", "F", "G"}, r \in {"1", "8"}}

\* the position with the portal bookkeeping turned over: each cooldown flag
\* negated, no no-return entry
PortalStateTurned(P) ==
  [P EXCEPT !.neutralSwapCooldown = [w |-> ~P.neutralSwapCooldown.w,
                                     b |-> ~P.neutralSwapCooldown.b],
            !.pendingPersonalNoReturn = [w |-> EmptyMap, b |-> EmptyMap],
            !.personalNoReturn = [w |-> EmptyMap, b |-> EmptyMap]]

\* C40: on every square that is not a portal square isSquareAttacked equals the
\* geometric test (pawn capture direction, knight jumps, king adjacency, sliding
\* rays with blockers), for either colour; on the castling squares its answer is
\* the same with the cooldown flags negated and the no-return maps wiped
C40_OffPortalAttackIsGeometric ==
  /\ \A sq \in OffPortal : \A c \in {"w", "b"} :
       isSquareAttacked(pos, sq, c) <=> GeometricAttack(pos, sq, c)
  /\ \A sq \in CastlingSquares :
       isSquareAttacked(PortalStateTurned(pos), sq, Opp(pos.turn))
         <=> GeometricAttack(pos, sq, Opp(pos.turn))

\* a castle has just been made in a position where the portal scan is at work: some
\* portal square is attacked through a portal outcome alone, and some castling
\* square of the back ranks is attacked
C40_Witness ==
  /\ pos.history # << >>
  /\ LastMove.kind = "castle"
  /\ \E sq \in Range(PortalSquares) : \E c \in {"w", "b"} :
       isSquareAttacked(pos, sq, c) /\ ~GeometricAttack(pos, sq, c)
  /\ \E sq \in OffPortal : RankOf(sq) \in BackRanks /\ isSquareAttacked(pos, sq, Opp(pos.turn))

=============================================================================
